---- MODULE Spec2Model ----
(***************************************************************************)
(* Lecture-transcript correction: the rule pipeline of final_system.py     *)
(* (LightweightCorrector), the LLM escalation of nova_system.py            *)
(* (NovaCorrector) and the refined scorer of improved_evaluator.py.        *)
(*                                                                         *)
(* A character is its Unicode code point and a text is a sequence of code  *)
(* points, as a Python str is.  The alphabet is ASCII, the CJK symbol and  *)
(* kana block U+3000..U+30FF, the unified ideographs U+4E00..U+9FFF and    *)
(* the full-width forms U+FF00..U+FFEF; the character classes below are    *)
(* those of Python's re module on that alphabet.  Quality values are       *)
(* integers in hundredths (0.3 is 30, 1.0 is 100).                         *)
(***************************************************************************)
EXTENDS Integers, Sequences, FiniteSets, TLC

VARIABLES
    pc,                  \* position of the running entry point
    bedrock_client,      \* NovaCorrector.bedrock_client is set (not None)
    total_input_tokens,  \* NovaCorrector.total_input_tokens
    total_output_tokens, \* NovaCorrector.total_output_tokens
    total_cost,          \* NovaCorrector.total_cost, in units of 1e-9
    mode,                \* "rule": process_segments, "nova": process_segments_enhanced
    text,                \* the transcript handed to the entry point
    segments,            \* the list re.split returned
    i,                   \* the loop index over segments
    results,             \* the result list built so far
    cur,                 \* locals of enhanced_correct_text for the current unit
    calls,               \* per result: what the gate decided and the adapter returned
    audit,               \* last call of calculate_realistic_quality_score
    output,              \* the corrected transcript main wrote
    ret,                 \* last call of correct_text or needs_llm_correction on text
    config,              \* correction_settings of the configuration file
    stats,               \* the statistics the entry point computed after saving
    batch,               \* BatchProcessor.process_directory: its files and locals
    evaluation,          \* improved_quality_analysis: its files and locals
    corrector            \* the rule tables of the LightweightCorrector object

vars == <<pc, bedrock_client, total_input_tokens, total_output_tokens, total_cost,
          mode, text, segments, i, results, cur, calls, audit, output, ret,
          config, stats, batch, evaluation, corrector>>

\* ------------------------------------------------------------------ bounds

\* Header units of a transcript handed to an entry point.
MaxUnits == 2

\* Length of a corrections list handed to calculate_realistic_quality_score.
MaxCorrections == 2

\* Fragments a text handed to correct_text or needs_llm_correction is made of.
MaxFrags == 2

\* The number of *.txt files in the directory of a batch run is at most MaxFiles.
MaxFiles == 2

\* Each of the two files handed to the diff analysis holds at most MaxBlocks timestamped blocks.
MaxBlocks == 2

\* ------------------------------------------------------- character classes

Min(a, b) == IF a <= b THEN a ELSE b

Max(a, b) == IF a >= b THEN a ELSE b

\* \d
IsDigit(c) == c \in 48..57 \/ c \in 65296..65305

\* \w of a str pattern
IsWord(c) ==
    \/ c \in 48..57 \/ c \in 65..90 \/ c = 95 \/ c \in 97..122
    \/ c \in 12293..12295 \/ c \in 12321..12329 \/ c \in 12337..12341
    \/ c \in 12344..12348 \/ c \in 12353..12438 \/ c \in 12445..12447
    \/ c \in 12449..12538 \/ c \in 12540..12543 \/ c \in 19968..40959
    \/ c \in 65296..65305 \/ c \in 65313..65338 \/ c \in 65345..65370
    \/ c \in 65382..65470 \/ c \in 65474..65479 \/ c \in 65482..65487
    \/ c \in 65490..65495 \/ c \in 65498..65500

\* \s, and what str.strip() removes
IsSpace(c) == c \in 9..13 \/ c \in 28..32 \/ c = 12288

\* [あ-ん]
IsHiragana(c) == c \in 12354..12435

\* [あ-んA-Za-z]
IsKanaOrLatin(c) == IsHiragana(c) \/ c \in 65..90 \/ c \in 97..122

\* [えあ]
IsEA(c) == c = 12360 \/ c = 12354

\* ー
IsLongVowel(c) == c = 12540

\* [。、！？]
IsPunct(c) == c = 12290 \/ c = 12289 \/ c = 65281 \/ c = 65311

\* ---------------------------------------------------------- regex pieces

\* The character at index k, 0 outside the text (NUL is in no class above).
At(t, k) == IF k >= 1 /\ k <= Len(t) THEN t[k] ELSE 0

\* The literal lit matches at index k.
MatchLit(t, k, lit) ==
    /\ k >= 1
    /\ k + Len(lit) - 1 <= Len(t)
    /\ \A j \in 1..Len(lit) : t[k + j - 1] = lit[j]

\* \b between index k-1 and index k.
WordBoundary(t, k) == IsWord(At(t, k - 1)) /= IsWord(At(t, k))

\* $ at index k (no MULTILINE): the end, or just before a final newline.
AtEnd(t, k) == k = Len(t) + 1 \/ (k = Len(t) /\ t[k] = 10)

\* Greedy runs from index k: the first index whose character is not in the class.
RECURSIVE SkipSpace(_, _)
SkipSpace(t, k) == IF k <= Len(t) /\ IsSpace(t[k]) THEN SkipSpace(t, k + 1) ELSE k

RECURSIVE SkipWord(_, _)
SkipWord(t, k) == IF k <= Len(t) /\ IsWord(t[k]) THEN SkipWord(t, k + 1) ELSE k

RECURSIVE SkipDigits(_, _)
SkipDigits(t, k) == IF k <= Len(t) /\ IsDigit(t[k]) THEN SkipDigits(t, k + 1) ELSE k

RECURSIVE SkipEA(_, _)
SkipEA(t, k) == IF k <= Len(t) /\ IsEA(t[k]) THEN SkipEA(t, k + 1) ELSE k

RECURSIVE SkipLongVowel(_, _)
SkipLongVowel(t, k) == IF k <= Len(t) /\ IsLongVowel(t[k]) THEN SkipLongVowel(t, k + 1) ELSE k

\* Python's "lit in t".
Contains(t, lit) == \E k \in 1..(Len(t) - Len(lit) + 1) : MatchLit(t, k, lit)

\* str.strip()
RECURSIVE RStrip(_)
RStrip(t) == IF t /= <<>> /\ IsSpace(t[Len(t)]) THEN RStrip(SubSeq(t, 1, Len(t) - 1)) ELSE t

Strip(t) == RStrip(SubSeq(t, SkipSpace(t, 1), Len(t)))

\* ------------------------------------------------------------ rule tables
\* A rule is a record: kind names the shape of its regular expression, pat the
\* literal in it, repl the replacement text.

\* r'\bベルト\b': 'ベルトン', r'\bベル ト\b': 'ベルトン', r'\bジーピーティー\b': 'GPT',
\* r'\bラーム\b': 'Llama', r'\bエルエム\b': 'LLM', r'\b松尾研\b(?!究室)': '松尾研究室',
\* r'とも配も': 'ともかく', r'編集BERT': 'BERT', r'あの後単語': '後ほど'
tech_terms == <<
    [kind |-> "word", pat |-> <<12505, 12523, 12488>>, repl |-> <<12505, 12523, 12488, 12531>>],
    [kind |-> "word", pat |-> <<12505, 12523, 32, 12488>>, repl |-> <<12505, 12523, 12488, 12531>>],
    [kind |-> "word", pat |-> <<12472, 12540, 12500, 12540, 12486, 12451, 12540>>, repl |-> <<71, 80, 84>>],
    [kind |-> "word", pat |-> <<12521, 12540, 12512>>, repl |-> <<76, 108, 97, 109, 97>>],
    [kind |-> "word", pat |-> <<12456, 12523, 12456, 12512>>, repl |-> <<76, 76, 77>>],
    [kind |-> "wordNotAhead", pat |-> <<26494, 23614, 30740>>, notAhead |-> <<31350, 23460>>, repl |-> <<26494, 23614, 30740, 31350, 23460>>],
    [kind |-> "lit", pat |-> <<12392, 12418, 37197, 12418>>, repl |-> <<12392, 12418, 12363, 12367>>],
    [kind |-> "lit", pat |-> <<32232, 38598, 66, 69, 82, 84>>, repl |-> <<66, 69, 82, 84>>],
    [kind |-> "lit", pat |-> <<12354, 12398, 24460, 21336, 35486>>, repl |-> <<24460, 12411, 12393>>] >>

\* r'申しす(?=\s|$)': '申します', r'ございす(?=\s|$)': 'ございます',
\* r'思いす(?=\s|$)': '思います', r'りがとうございす': 'ありがとうございます'
ending_fixes == <<
    [kind |-> "ending", pat |-> <<30003, 12375, 12377>>, repl |-> <<30003, 12375, 12414, 12377>>],
    [kind |-> "ending", pat |-> <<12372, 12374, 12356, 12377>>, repl |-> <<12372, 12374, 12356, 12414, 12377>>],
    [kind |-> "ending", pat |-> <<24605, 12356, 12377>>, repl |-> <<24605, 12356, 12414, 12377>>],
    [kind |-> "lit", pat |-> <<12426, 12364, 12392, 12358, 12372, 12374, 12356, 12377>>, repl |-> <<12354, 12426, 12364, 12392, 12358, 12372, 12374, 12356, 12414, 12377>>] >>

\* (r'だったのかな[、。]', 'でした。'), (r'あるのかなと思', 'あると思'),
\* (r'かなというふう', 'かと思'), (r'っていう', 'という'), (r'だったりとか', 'や')
naturalness_rules == <<
    [kind |-> "litThen", pat |-> <<12384, 12387, 12383, 12398, 12363, 12394>>, next |-> "commaStop", keep |-> FALSE,
     repl |-> <<12391, 12375, 12383, 12290>>],
    [kind |-> "lit", pat |-> <<12354, 12427, 12398, 12363, 12394, 12392, 24605>>, repl |-> <<12354, 12427, 12392, 24605>>],
    [kind |-> "lit", pat |-> <<12363, 12394, 12392, 12356, 12358, 12405, 12358>>, repl |-> <<12363, 12392, 24605>>],
    [kind |-> "lit", pat |-> <<12387, 12390, 12356, 12358>>, repl |-> <<12392, 12356, 12358>>],
    [kind |-> "lit", pat |-> <<12384, 12387, 12383, 12426, 12392, 12363>>, repl |-> <<12420>>] >>

\* (r'\s*[えあ]+ー*\s*', ' '), (r'\s*あのー*\s*', ' '), (r'なんか\s+', '')
filler_patterns == <<
    [kind |-> "fillerEA", repl |-> <<32>>],
    [kind |-> "fillerLit", pat |-> <<12354, 12398>>, repl |-> <<32>>],
    [kind |-> "litSpaces", pat |-> <<12394, 12435, 12363>>, repl |-> <<>>] >>

\* (r'申します([あ-んA-Za-z])', r'申します。\1'), (r'ございます([あ-んA-Za-z])', r'ございます。\1'),
\* (r'思います([あ-んA-Za-z])', r'思います。\1')
punctuation_rules == <<
    [kind |-> "litThen", pat |-> <<30003, 12375, 12414, 12377>>, next |-> "kanaLatin", keep |-> TRUE,
     repl |-> <<30003, 12375, 12414, 12377, 12290>>],
    [kind |-> "litThen", pat |-> <<12372, 12374, 12356, 12414, 12377>>, next |-> "kanaLatin", keep |-> TRUE,
     repl |-> <<12372, 12374, 12356, 12414, 12377, 12290>>],
    [kind |-> "litThen", pat |-> <<24605, 12356, 12414, 12377>>, next |-> "kanaLatin", keep |-> TRUE,
     repl |-> <<24605, 12356, 12414, 12377, 12290>>] >>

\* (r'\b(\w+)になる\1\b', r'\1'), (r'\b(\w+)\s+\1(?=\s)', r'\1')
repetition_patterns == <<
    [kind |-> "repeatJoined", pat |-> <<12395, 12394, 12427>>],
    [kind |-> "repeatSpaced"] >>

\* r'\s{2,}' -> ' ' and r'\s*([。、！？])' -> r'\1'
\* LightweightCorrector.load_patterns: the attributes of a corrector object after
\* __init__, its six rule tables.
load_patterns ==
    [tech_terms          |-> tech_terms,
     ending_fixes        |-> ending_fixes,
     naturalness_rules   |-> naturalness_rules,
     filler_patterns     |-> filler_patterns,
     punctuation_rules   |-> punctuation_rules,
     repetition_patterns |-> repetition_patterns]

cleanup_spaces == [kind |-> "spaces2", repl |-> <<32>>]

cleanup_punct == [kind |-> "spacePunct"]

\* ------------------------------------------------------------- matching

MaxOf(S) == CHOOSE x \in S : \A y \in S : y <= x

MinOf(S) == CHOOSE x \in S : \A y \in S : x <= y

\* A group (\w+) of length L at k lets the rest of r'\b(\w+)になる\1\b' match.
RepeatJoinedOK(rule, t, k, L) ==
    /\ MatchLit(t, k + L, rule.pat)
    /\ MatchLit(t, k + L + Len(rule.pat), SubSeq(t, k, k + L - 1))
    /\ WordBoundary(t, k + 2 * L + Len(rule.pat))

RepeatJoinedLens(rule, t, k) ==
    IF ~WordBoundary(t, k) THEN {}
    ELSE {L \in 1..(SkipWord(t, k) - k) : RepeatJoinedOK(rule, t, k, L)}

\* The greedy choice among the lengths that let the rest match: the longest, 0 if none.
Greedy(Ls) == IF Ls = {} THEN 0 ELSE MaxOf(Ls)

\* The length of the group (\w+) of a repetition pattern matching at k, 0 if none.
\* In r'\b(\w+)\s+\1(?=\s)' the group is the whole run of word characters.
GroupLen(rule, t, k) ==
    IF rule.kind = "repeatJoined" THEN Greedy(RepeatJoinedLens(rule, t, k))
    ELSE SkipWord(t, k) - k

\* The index e if ok, 0 (no match) otherwise.
EndIf(ok, e) == IF ok THEN e ELSE 0

\* r'\s*[えあ]+ー*\s*' with the leading blanks ending at a
FillerEAEnd(t, a) ==
    EndIf(SkipEA(t, a) > a, SkipSpace(t, SkipLongVowel(t, SkipEA(t, a))))

\* r'\s*あのー*\s*' with the leading blanks ending at a
FillerLitEnd(rule, t, a) ==
    EndIf(MatchLit(t, a, rule.pat), SkipSpace(t, SkipLongVowel(t, a + Len(rule.pat))))

\* r'\b(\w+)\s+\1(?=\s)' at k with the group of length L and the blanks ending at a
RepeatSpacedEnd(t, k, L, a) ==
    EndIf(/\ WordBoundary(t, k)
          /\ L > 0
          /\ a > k + L
          /\ MatchLit(t, a, SubSeq(t, k, k + L - 1))
          /\ IsSpace(At(t, a + L)),
          a + L)

\* The lengths n of a run [あ-ん]{3,} at k that is followed by the literal.
HiraganaRunLens(rule, t, k) ==
    {n \in 3..(Len(t) - k) :
        /\ \A j \in 0..(n - 1) : IsHiragana(t[k + j])
        /\ MatchLit(t, k + n, rule.pat)}

\* (?=\s) alone at index k: the end of the text does not count.
EndingAheadSpaceOnly(t, k) == IsSpace(At(t, k))

\* (?=\s|$) at index k
EndingAhead(t, k) == IsSpace(At(t, k)) \/ AtEnd(t, k)

\* The character after a literal is of the class the rule names.
NextInClass(rule, c) ==
    IF rule.next = "kanaLatin" THEN IsKanaOrLatin(c) ELSE c = 12289 \/ c = 12290

\* re.match of the rule's pattern at index k: the index after the match, 0 if it
\* does not match at k.  No pattern of the tables matches the empty text.
MatchEnd(rule, t, k) ==
    CASE rule.kind = "lit" ->
           EndIf(MatchLit(t, k, rule.pat), k + Len(rule.pat))
      [] rule.kind = "word" ->
           EndIf(/\ WordBoundary(t, k)
                 /\ MatchLit(t, k, rule.pat)
                 /\ WordBoundary(t, k + Len(rule.pat)),
                 k + Len(rule.pat))
      [] rule.kind = "wordNotAhead" ->
           EndIf(/\ WordBoundary(t, k)
                 /\ MatchLit(t, k, rule.pat)
                 /\ WordBoundary(t, k + Len(rule.pat))
                 /\ ~MatchLit(t, k + Len(rule.pat), rule.notAhead),
                 k + Len(rule.pat))
      [] rule.kind = "ending" ->
           EndIf(/\ MatchLit(t, k, rule.pat)
                 /\ EndingAhead(t, k + Len(rule.pat)),
                 k + Len(rule.pat))
      [] rule.kind = "litThen" ->
           EndIf(/\ MatchLit(t, k, rule.pat)
                 /\ NextInClass(rule, At(t, k + Len(rule.pat))),
                 k + Len(rule.pat) + 1)
      [] rule.kind = "fillerEA" -> FillerEAEnd(t, SkipSpace(t, k))
      [] rule.kind = "fillerLit" -> FillerLitEnd(rule, t, SkipSpace(t, k))
      [] rule.kind = "litSpaces" ->
           EndIf(MatchLit(t, k, rule.pat) /\ IsSpace(At(t, k + Len(rule.pat))),
                 SkipSpace(t, k + Len(rule.pat)))
      [] rule.kind = "repeatJoined" ->
           EndIf(GroupLen(rule, t, k) > 0, k + 2 * GroupLen(rule, t, k) + Len(rule.pat))
      [] rule.kind = "repeatSpaced" ->
           RepeatSpacedEnd(t, k, GroupLen(rule, t, k), SkipSpace(t, SkipWord(t, k)))
      [] rule.kind = "spaces2" ->
           EndIf(SkipSpace(t, k) >= k + 2, SkipSpace(t, k))
      [] rule.kind = "spacePunct" ->
           EndIf(IsPunct(At(t, SkipSpace(t, k))), SkipSpace(t, k) + 1)
      [] rule.kind = "hiraganaRunThen" ->
           EndIf(HiraganaRunLens(rule, t, k) /= {},
                 k + Len(rule.pat) + Greedy(HiraganaRunLens(rule, t, k)))
      [] rule.kind = "litNotThen" ->
           EndIf(/\ MatchLit(t, k, rule.pat)
                 /\ k + Len(rule.pat) <= Len(t)
                 /\ t[k + Len(rule.pat)] /= rule.no,
                 k + Len(rule.pat) + 1)

\* The text a match at k..e-1 is replaced by (\1 is the matched group).
Replacement(rule, t, k, e) ==
    CASE rule.kind = "litThen" -> IF rule.keep THEN Append(rule.repl, t[e - 1]) ELSE rule.repl
      [] rule.kind \in {"repeatJoined", "repeatSpaced"} ->
           SubSeq(t, k, k + GroupLen(rule, t, k) - 1)
      [] rule.kind = "spacePunct" -> <<t[e - 1]>>
      [] OTHER -> rule.repl

\* re.search(pattern, t)
Search(rule, t) == \E k \in 1..Len(t) : MatchEnd(rule, t, k) > 0

\* re.sub(pattern, replacement, t), scanning from index k: every leftmost
\* non-overlapping match is replaced.  SubAt is the step at k, e being the end of
\* the match at k (0 if none).
RECURSIVE SubFrom(_, _, _)
SubAt(rule, t, k, e) ==
    IF e > 0
    THEN Replacement(rule, t, k, e) \o SubFrom(rule, t, e)
    ELSE <<t[k]>> \o SubFrom(rule, t, k + 1)

SubFrom(rule, t, k) ==
    IF k > Len(t) THEN <<>> ELSE SubAt(rule, t, k, MatchEnd(rule, t, k))

Sub(rule, t) == SubFrom(rule, t, 1)

\* ------------------------------------------------------------ correct_text

\* The log labels: '専門用語: ', '語尾修正: ', '繰り返し除去', 'フィラー除去', '自然化',
\* '句読点追加', 'LLM文脈修正'
LabelTech == <<23554, 38272, 29992, 35486, 58, 32>>

LabelEnding == <<35486, 23614, 20462, 27491, 58, 32>>

LabelRepetition == <<32368, 12426, 36820, 12375, 38500, 21435>>

LabelFiller == <<12501, 12451, 12521, 12540, 38500, 21435>>

LabelNatural == <<33258, 28982, 21270>>

LabelPunct == <<21477, 35501, 28857, 36861, 21152>>

LabelLLM == <<76, 76, 77, 25991, 33032, 20462, 27491>>

\* The entry logged for a rule: the label, followed by the replacement when withRepl.
Entry(rule, label, withRepl) == IF withRepl THEN label \o rule.repl ELSE label

\* Applied with the entry put at the head of the log.
AppliedPrepended(rule, st, entry) ==
    [text |-> Sub(rule, st.text), log |-> <<entry>> \o st.log]

\* A rule whose pattern was found: every match is replaced and one entry is
\* logged.  st is [text, log].
Applied(rule, st, entry) ==
    [text |-> Sub(rule, st.text), log |-> Append(st.log, entry)]

\* One stage: the rules of a table in order, from rule n on.
RECURSIVE ApplyRules(_, _, _, _, _)
ApplyRules(rules, n, st, label, withRepl) ==
    IF n > Len(rules) THEN st
    ELSE IF Search(rules[n], st.text)
    THEN ApplyRules(rules, n + 1, Applied(rules[n], st, Entry(rules[n], label, withRepl)),
                    label, withRepl)
    ELSE ApplyRules(rules, n + 1, st, label, withRepl)

\* Stages 1 to 6 of correct_text on text t, with the rule tables of the corrector
\* object self: technical terms, endings, repetitions, fillers, naturalization,
\* punctuation.
RuleStages(self, t) ==
    ApplyRules(self.punctuation_rules, 1,
      ApplyRules(self.naturalness_rules, 1,
        ApplyRules(self.filler_patterns, 1,
          ApplyRules(self.repetition_patterns, 1,
            ApplyRules(self.ending_fixes, 1,
              ApplyRules(self.tech_terms, 1, [text |-> t, log |-> <<>>], LabelTech, TRUE),
              LabelEnding, TRUE),
            LabelRepetition, FALSE),
          LabelFiller, FALSE),
        LabelNatural, FALSE),
      LabelPunct, FALSE)

\* The cleanup without strip()
CleanupUnstripped(t) == Sub(cleanup_punct, Sub(cleanup_spaces, t))

\* Stage 7, the cleanup: blanks collapsed, blanks before 。、！？ removed, strip()
Cleanup(t) == Strip(Sub(cleanup_punct, Sub(cleanup_spaces, t)))

\* len(corrections_log) / 5 + 0.3 without the cap
SimpleQualityUncapped(log) == (Len(log) * 100) \div 5 + 30

\* min(1.0, len(corrections_log) / 5 + 0.3), in hundredths
SimpleQuality(log) == Min(100, (Len(log) * 100) \div 5 + 30)

\* What correct_text returns after the six stages left st.
Finish(st) ==
    [corrected   |-> Cleanup(st.text),
     corrections |-> st.log,
     quality     |-> SimpleQuality(st.log)]

\* LightweightCorrector.correct_text: (corrected, corrections_log, quality)
correct_text(self, t) == Finish(RuleStages(self, t))

\* ------------------------------------------------------------ segmentation

\* r'\[\d+:\d+:\d+ - \d+:\d+:\d+\]' item by item: 0 stands for \d+, any other
\* number for that character.
header_items == <<91, 0, 58, 0, 58, 0, 32, 45, 32, 0, 58, 0, 58, 0, 93>>

\* The items from n on match at k: the index after the match, 0 if none.
RECURSIVE HeaderFrom(_, _, _)
HeaderFrom(t, k, n) ==
    IF n > Len(header_items) THEN k
    ELSE IF header_items[n] = 0
    THEN IF SkipDigits(t, k) > k THEN HeaderFrom(t, SkipDigits(t, k), n + 1) ELSE 0
    ELSE IF At(t, k) = header_items[n] THEN HeaderFrom(t, k + 1, n + 1) ELSE 0

\* The index after a header matching at k, 0 if none matches at k.
HeaderEnd(t, k) == HeaderFrom(t, k, 1)

\* re.split(r'(\[\d+:\d+:\d+ - \d+:\d+:\d+\])', t): the texts between the headers,
\* with the headers themselves (the captured group) at the odd Python indices.
\* SplitAt is the step at k, e being the end of the header at k (0 if none).
RECURSIVE SplitFrom(_, _, _)
\* The step of a split whose pattern has no captured group: the headers are dropped.
SplitAtUncaptured(t, k, from, e) ==
    IF e > 0
    THEN <<SubSeq(t, from, k - 1)>> \o SplitFrom(t, e, e)
    ELSE SplitFrom(t, k + 1, from)

SplitAt(t, k, from, e) ==
    IF e > 0
    THEN <<SubSeq(t, from, k - 1), SubSeq(t, k, e - 1)>> \o SplitFrom(t, e, e)
    ELSE SplitFrom(t, k + 1, from)

SplitFrom(t, k, from) ==
    IF k > Len(t) THEN <<SubSeq(t, from, Len(t))>> ELSE SplitAt(t, k, from, HeaderEnd(t, k))

Split(t) == SplitFrom(t, 1, 1)

\* "00:00:00"
Sentinel == <<48, 48, 58, 48, 48, 58, 48, 48>>

\* The groups of a header matching at k and ending before e: (\d+:\d+:\d+) runs
\* from after '[' to the first blank, the second from after ' - ' to before ']'.
HeaderGroups(t, k, e, blank) ==
    [start_time |-> SubSeq(t, k + 1, blank - 1), end_time |-> SubSeq(t, blank + 3, e - 2)]

\* re.search(r'\[(\d+:\d+:\d+) - (\d+:\d+:\d+)\]', timestamp) found a header at the
\* indices Ks (the leftmost is the match), or found none: (start_time, end_time).
TimestampsAt(timestamp, Ks) ==
    IF Ks = {} THEN [start_time |-> Sentinel, end_time |-> Sentinel]
    ELSE HeaderGroups(timestamp, MinOf(Ks), HeaderEnd(timestamp, MinOf(Ks)),
                      MinOf({b \in MinOf(Ks)..Len(timestamp) : timestamp[b] = 32}))

Timestamps(timestamp) ==
    TimestampsAt(timestamp, {k \in 1..Len(timestamp) : HeaderEnd(timestamp, k) > 0})

\* segments[j] with Python's index j (from 0)
Seg(segs, j) == segs[j + 1]

\* The test of the content without strip()
HasContentUnstripped(segs, j) == j + 1 < Len(segs) /\ Seg(segs, j + 1) /= <<>>

\* The test with a header required after the content as well
HasContentBeforeHeader(segs, j) == j + 2 < Len(segs) /\ Strip(Seg(segs, j + 1)) /= <<>>

\* The unit of loop index j is processed: it has a text after it (j + 1 < len) and
\* that text is not blank.
HasContent(segs, j) == j + 1 < Len(segs) /\ Strip(Seg(segs, j + 1)) /= <<>>

\* The result record of a unit: its timestamps ts, its content, and r, what
\* correct_text returned for it.
RuleResult(id, ts, content, r) ==
    [id          |-> id,
     start_time  |-> ts.start_time,
     end_time    |-> ts.end_time,
     original    |-> content,
     corrected   |-> r.corrected,
     corrections |-> r.corrections,
     quality     |-> r.quality]

\* The iteration with one corrections_log for the whole loop: the entries logged
\* for the units before stay in the log of the units after them.
RuleIterationSharedLog(self, segs, j, res) ==
    IF ~HasContent(segs, j) THEN res
    ELSE Append(res, RuleResult(Len(res) + 1, Timestamps(Seg(segs, j)),
                                Strip(Seg(segs, j + 1)),
                                [correct_text(self, Strip(Seg(segs, j + 1)))
                                   EXCEPT !.corrections =
                                     (IF res = <<>> THEN <<>> ELSE res[Len(res)].corrections)
                                       \o @]))

\* One iteration of the loop of process_segments: the result list after it.
RuleIteration(self, segs, j, res) ==
    IF ~HasContent(segs, j) THEN res
    ELSE Append(res, RuleResult(Len(res) + 1, Timestamps(Seg(segs, j)),
                                Strip(Seg(segs, j + 1)),
                                correct_text(self, Strip(Seg(segs, j + 1)))))

\* for i in range(1, len(segments), 2), from loop index j on
RECURSIVE RuleLoop(_, _, _, _)
RuleLoop(self, segs, j, res) ==
    IF j >= Len(segs) THEN res
    ELSE RuleLoop(self, segs, j + 2, RuleIteration(self, segs, j, res))

\* LightweightCorrector.process_segments
process_segments(self, t) == RuleLoop(self, Split(t), 1, <<>>)

\* main of final_system: f"[{start_time} - {end_time}]\n" and f"{corrected}\n\n"
\* for each result, from result n on.
RECURSIVE WriteFrom(_, _)
WriteFrom(res, n) ==
    IF n > Len(res) THEN <<>>
    ELSE <<91>> \o res[n].start_time \o <<32, 45, 32>> \o res[n].end_time \o <<93, 10>>
         \o res[n].corrected \o <<10, 10>> \o WriteFrom(res, n + 1)

WriteOutput(res) == WriteFrom(res, 1)

\* sum(r['quality'] for r in results), from result n on
RECURSIVE QualitySum(_, _)
QualitySum(res, n) ==
    IF n > Len(res) THEN 0 ELSE res[n].quality + QualitySum(res, n + 1)

\* sum(r['quality'] for r in results) / len(results), in hundredths rounded down;
\* the caller has made sure that there is a result.
Average(res) == QualitySum(res, 1) \div Len(res)

\* The statistics of main after saving: len(results) and the average quality,
\* or ZeroDivisionError raised when results is empty.
entry_stats(res) ==
    IF Len(res) = 0 THEN [raised |-> TRUE, segments |-> 0, average |-> 0]
    ELSE [raised |-> FALSE, segments |-> Len(res), average |-> Average(res)]

\* ------------------------------------------------------- escalation gate

\* r'[あ-ん]{3,}も', r'帰漏らし', r'エポック', r'簡易回', r'バット[^ー]', r'お腹切り',
\* r'円周部分', r'ベルトンさん', r'松尾岩澤研', r'スレッド1', r'Googleコラボ'
complex_patterns == <<
    [kind |-> "hiraganaRunThen", pat |-> <<12418>>],
    [kind |-> "lit", pat |-> <<24112, 28431, 12425, 12375>>],
    [kind |-> "lit", pat |-> <<12456, 12509, 12483, 12463>>],
    [kind |-> "lit", pat |-> <<31777, 26131, 22238>>],
    [kind |-> "litNotThen", pat |-> <<12496, 12483, 12488>>, no |-> 12540],
    [kind |-> "lit", pat |-> <<12362, 33145, 20999, 12426>>],
    [kind |-> "lit", pat |-> <<20870, 21608, 37096, 20998>>],
    [kind |-> "lit", pat |-> <<12505, 12523, 12488, 12531, 12373, 12435>>],
    [kind |-> "lit", pat |-> <<26494, 23614, 23721, 28580, 30740>>],
    [kind |-> "lit", pat |-> <<12473, 12524, 12483, 12489, 49>>],
    [kind |-> "lit", pat |-> <<71, 111, 111, 103, 108, 101, 12467, 12521, 12508>>] >>

\* A loop that returns what the first pattern it looks at decides.
NeedsFirstOnly(t, n) == n <= Len(complex_patterns) /\ Search(complex_patterns[n], t)

\* for pattern in complex_patterns: if re.search(pattern, text): return True
\* and return False after the loop; from pattern n on.
RECURSIVE NeedsFrom(_, _)
NeedsFrom(t, n) ==
    IF n > Len(complex_patterns) THEN FALSE
    ELSE IF Search(complex_patterns[n], t) THEN TRUE
    ELSE NeedsFrom(t, n + 1)

\* NovaCorrector.needs_llm_correction
needs_llm_correction(t) == NeedsFrom(t, 1)

\* ------------------------------------------------------------ LLM adapter

\* Optional[str]: None, or a text
NoText == [some |-> FALSE, text |-> <<>>]

SomeText(t) == [some |-> TRUE, text |-> t]

\* The cost of a call with the rates of the two kinds of token exchanged
CallCostSwapped(input_tokens, output_tokens) == input_tokens * 140 + output_tokens * 35

\* input_tokens * 0.000035 / 1000 + output_tokens * 0.00014 / 1000, in units of 1e-9
CallCost(input_tokens, output_tokens) == input_tokens * 35 + output_tokens * 140

\* A call that stores the usage of the response instead of adding it
CallOverwrites(client, reply, acct) ==
    IF ~client THEN [result |-> NoText, acct |-> acct]
    ELSE IF reply.kind = "raise" THEN [result |-> NoText, acct |-> acct]
    ELSE [result |-> IF reply.output.some THEN SomeText(Strip(reply.output.text)) ELSE NoText,
          acct   |-> [input  |-> reply.usage[1],
                      output |-> reply.usage[2],
                      cost   |-> CallCost(reply.usage[1], reply.usage[2])]]

\* NovaCorrector.call_nova_micro with the service behaving as reply: the value
\* returned and the counters after the call.  acct is the counters before it.
call_nova_micro(client, reply, acct) ==
    IF ~client THEN [result |-> NoText, acct |-> acct]
    ELSE IF reply.kind = "raise" THEN [result |-> NoText, acct |-> acct]
    ELSE [result |-> IF reply.output.some THEN SomeText(Strip(reply.output.text)) ELSE NoText,
          acct   |-> [input  |-> acct.input + reply.usage[1],
                      output |-> acct.output + reply.usage[2],
                      cost   |-> acct.cost + CallCost(reply.usage[1], reply.usage[2])]]

\* rule_quality + 0.3 without the cap
EnhancedQualityUncapped(rule_quality) == rule_quality + 30

\* min(1.0, rule_quality + 0.3)
EnhancedQuality(rule_quality) == Min(100, rule_quality + 30)

\* "if llm_result != rule_corrected", without the test of llm_result itself
LLMChangedUnchecked(llm_result, rule_corrected) == llm_result.text /= rule_corrected

\* "if llm_result and llm_result != rule_corrected"
LLMChanged(llm_result, rule_corrected) ==
    llm_result.some /\ llm_result.text /= <<>> /\ llm_result.text /= rule_corrected

\* What enhanced_correct_text returns, given the rule stage's result and the
\* adapter's (NoText when the gate did not ask).
enhanced_result(rule, llm_result) ==
    IF LLMChanged(llm_result, rule.corrected)
    THEN [corrected   |-> llm_result.text,
          corrections |-> Append(rule.corrections, LabelLLM),
          quality     |-> EnhancedQuality(rule.quality)]
    ELSE rule

\* any('LLM' in c for c in corrections)
llm_used(corrections) == \E n \in 1..Len(corrections) : Contains(corrections[n], <<76, 76, 77>>)

\* ---------------------------------------------------------- refined scorer

\* correction_weights.get(correction, 0.02)
CorrectionWeight(correction) ==
    CASE correction = "technical_terms" -> 20
      [] correction = "repetition_removal" -> 15
      [] correction = "grammar_fixes" -> 15
      [] correction = "punctuation_improvement" -> 10
      [] correction = "naturalness_improvement" -> 10
      [] correction = "filler_removal" -> 5
      [] OTHER -> 2

\* --- Python floats.  The scores are sums of a few constants, and the sums are
\* compared with 0.8, 0.6 and 0.4, which the rounding of a sum can miss by one
\* unit in the last place (0.5 + 0.1 + 0.1 - 0.3 is 0.39999999999999997).  A
\* float x is the record [neg, hi, lo] with |x| = (hi * 2^30 + lo) * 2^-58: every
\* float met here is a multiple of 2^-58 below 8.
Limb == 2^30

\* The float Python reads the literal h/100 as, for the literals of the scorer.
Double(h) ==
    CASE h = 0 -> [neg |-> FALSE, hi |-> 0, lo |-> 0]
      [] h = 2 -> [neg |-> FALSE, hi |-> 5368709, lo |-> 128849019]
      [] h = 5 -> [neg |-> FALSE, hi |-> 13421772, lo |-> 858993460]
      [] h = 10 -> [neg |-> FALSE, hi |-> 26843545, lo |-> 644245096]
      [] h = 15 -> [neg |-> FALSE, hi |-> 40265318, lo |-> 429496728]
      [] h = 20 -> [neg |-> FALSE, hi |-> 53687091, lo |-> 214748368]
      [] h = 30 -> [neg |-> FALSE, hi |-> 80530636, lo |-> 858993456]
      [] h = 40 -> [neg |-> FALSE, hi |-> 107374182, lo |-> 429496736]
      [] h = 50 -> [neg |-> FALSE, hi |-> 134217728, lo |-> 0]
      [] h = 60 -> [neg |-> FALSE, hi |-> 161061273, lo |-> 644245088]
      [] h = 80 -> [neg |-> FALSE, hi |-> 214748364, lo |-> 858993472]
      [] h = 100 -> [neg |-> FALSE, hi |-> 268435456, lo |-> 0]

\* Sum and difference of two magnitudes, and their order
MagSum(a, b) == [hi |-> a.hi + b.hi + (a.lo + b.lo) \div Limb, lo |-> (a.lo + b.lo) % Limb]

MagDiff(a, b) ==
    IF a.lo >= b.lo THEN [hi |-> a.hi - b.hi, lo |-> a.lo - b.lo]
    ELSE [hi |-> a.hi - b.hi - 1, lo |-> a.lo + Limb - b.lo]

MagLess(a, b) == a.hi < b.hi \/ (a.hi = b.hi /\ a.lo < b.lo)

\* The number of binary digits of n
RECURSIVE BitLen(_)
BitLen(n) == IF n = 0 THEN 0 ELSE 1 + BitLen(n \div 2)

\* A float has 53 significant binary digits: of a magnitude whose high limb is
\* hi, the lowest Drop(hi) digits are rounded away, to the nearest, ties to even.
Drop(hi) == Max(0, BitLen(hi) - 23)

RoundUp(lo, unit) ==
    \/ (lo % unit) > (unit \div 2)
    \/ unit > 1 /\ (lo % unit) = (unit \div 2) /\ ((lo \div unit) % 2) = 1

RoundedLo(lo, unit) == (lo - (lo % unit)) + (IF RoundUp(lo, unit) THEN unit ELSE 0)

Normal(neg, hi, lo) ==
    IF lo = Limb THEN [neg |-> neg, hi |-> hi + 1, lo |-> 0]
    ELSE [neg |-> neg, hi |-> hi, lo |-> lo]

Rounded(neg, m) == Normal(neg, m.hi, RoundedLo(m.lo, 2^Drop(m.hi)))

\* a + b
FAdd(a, b) ==
    IF a.neg = b.neg THEN Rounded(a.neg, MagSum(a, b))
    ELSE IF MagLess(a, b) THEN Rounded(b.neg, MagDiff(b, a))
    ELSE IF MagLess(b, a) THEN Rounded(a.neg, MagDiff(a, b))
    ELSE Double(0)

\* -a
FNeg(a) == IF a.hi = 0 /\ a.lo = 0 THEN a ELSE [a EXCEPT !.neg = ~a.neg]

\* a < b
FLess(a, b) ==
    IF a.neg /= b.neg THEN a.neg
    ELSE IF a.neg THEN MagLess(b, a)
    ELSE MagLess(a, b)

\* score += h/100 for a literal h/100 (score -= -h/100 when h is negative); no
\* statement runs when h is 0
Plus(score, h) ==
    IF h > 0 THEN FAdd(score, Double(h))
    ELSE IF h < 0 THEN FAdd(score, FNeg(Double(-h)))
    ELSE score

\* "for correction in corrections: score += correction_weights.get(correction, 0.02)",
\* from the n-th correction on
RECURSIVE WeightSum(_, _, _)
WeightSum(corrections, n, score) ==
    IF n > Len(corrections) THEN score
    ELSE IF score.hi >= 0
    THEN WeightSum(corrections, n + 1, FAdd(score, Double(CorrectionWeight(corrections[n]))))
    ELSE score

\* (r'Day2になるDay2', r'Day2'), (r'ますタイトル', r'ます。タイトル'), (r'かなと思っている', r'かと思')
improvements == <<
    [bad |-> <<68, 97, 121, 50, 12395, 12394, 12427, 68, 97, 121, 50>>, good |-> <<68, 97, 121, 50>>],
    [bad |-> <<12414, 12377, 12479, 12452, 12488, 12523>>, good |-> <<12414, 12377, 12290, 12479, 12452, 12488, 12523>>],
    [bad |-> <<12363, 12394, 12392, 24605, 12387, 12390, 12356, 12427>>, good |-> <<12363, 12392, 24605>>] >>

detect_obvious_improvements(original, corrected) ==
    \E n \in 1..Len(improvements) :
        Contains(original, improvements[n].bad) /\ Contains(corrected, improvements[n].good)

\* ['講師', '講座', '皆さん', '研究室']
important_words == <<<<35611, 24107>>, <<35611, 24231>>, <<30342, 12373, 12435>>, <<30740, 31350, 23460>>>>

detect_deterioration(original, corrected) ==
    \/ Contains(original, <<12354, 12426, 12364, 12392, 12358, 12372, 12374, 12356, 12414, 12377>>) /\ Contains(corrected, <<12426, 12364, 12392, 12358, 12372, 12374, 12356, 12414, 12377>>)
    \/ \E n \in 1..Len(important_words) :
          Contains(original, important_words[n]) /\ ~Contains(corrected, important_words[n])

\* The length adjustment for a corrected text of n characters and d = max(len(original), 1):
\* +0.1 if 0.7 <= n / d <= 1.3, -0.2 if n / d < 0.5.
LengthAdjustOf(n, d) ==
    IF 7 * d <= 10 * n /\ 10 * n <= 13 * d THEN 10
    ELSE IF 2 * n < d THEN -20
    ELSE 0

LengthAdjust(original, corrected) == LengthAdjustOf(Len(corrected), Max(Len(original), 1))

\* min(max(score, 0.0), 1.0)
Clamp(score) ==
    IF FLess(score, Double(0)) THEN Double(0)
    ELSE IF FLess(Double(100), score) THEN Double(100)
    ELSE score

\* The score as a float.
calculate_realistic_quality_score(original, corrected, corrections) ==
    Clamp(Plus(Plus(Plus(WeightSum(corrections, 1, Double(50)),
                         LengthAdjust(original, corrected)),
                    IF detect_obvious_improvements(original, corrected) THEN 15 ELSE 0),
               IF detect_deterioration(original, corrected) THEN -30 ELSE 0))

\* ------------------------------------------------------------ diff analysis

\* content.split('\n'): the lines of t from index k on
NextNewline(t, k) == MinOf({j \in k..Len(t) : t[j] = 10} \cup {Len(t) + 1})

RECURSIVE LinesFrom(_, _)
LinesFrom(t, k) ==
    IF k > Len(t) + 1 THEN <<>>
    ELSE <<SubSeq(t, k, NextNewline(t, k) - 1)>> \o LinesFrom(t, NextNewline(t, k) + 1)

Lines(t) == LinesFrom(t, 1)

\* The body of the loop of extract_segments_improved for the stripped line of
\* number line_num.  st is [segments, current_segment].
WithCurrent(st) ==
    IF st.current_segment.content /= <<>> THEN Append(st.segments, st.current_segment)
    ELSE st.segments

ExtractLine(st, line, line_num) ==
    IF HeaderEnd(line, 1) > 0
    THEN [segments        |-> WithCurrent(st),
          current_segment |-> [timestamp |-> line, content |-> <<>>, line_number |-> line_num]]
    ELSE IF line /= <<>>
    THEN [st EXCEPT !.current_segment.content = @ \o line \o <<32>>]
    ELSE st

RECURSIVE ExtractFrom(_, _, _)
ExtractFrom(lines, n, st) ==
    IF n > Len(lines) THEN st
    ELSE IF Len(st.segments) >= 0
    THEN ExtractFrom(lines, n + 1, ExtractLine(st, Strip(lines[n]), n - 1))
    ELSE st

\* extract_segments_improved(content): the loop starts from no segment and the
\* current segment {'timestamp': '', 'content': '', 'line_number': 0}
extract_segments_improved(content) ==
    WithCurrent(ExtractFrom(Lines(content), 1,
                            [segments        |-> <<>>,
                             current_segment |-> [timestamp |-> <<>>, content |-> <<>>,
                                                  line_number |-> 0]]))

\* re.search(r'(\w+)になる\1', t)
RepeatedPhrase(t) ==
    \E k \in 1..Len(t) : \E L \in 1..(Len(t) - k) :
        /\ \A j \in k..(k + L - 1) : IsWord(t[j])
        /\ MatchLit(t, k + L, <<12395, 12394, 12427>>)
        /\ MatchLit(t, k + L + 3, SubSeq(t, k, k + L - 1))

\* t.count(lit), counted from index k on
RECURSIVE CountFrom(_, _, _)
CountFrom(t, lit, k) ==
    IF k + Len(lit) - 1 > Len(t) THEN 0
    ELSE IF MatchLit(t, k, lit) THEN 1 + CountFrom(t, lit, k + Len(lit))
    ELSE CountFrom(t, lit, k + 1)

\* ('ベルト', 'BERT'), ('ジーピーティー', 'GPT'), ('ラーム', 'Llama'), ('エルエム', 'LLM')
tech_replacements == <<
    [old_term |-> <<12505, 12523, 12488>>, new_term |-> <<66, 69, 82, 84>>],
    [old_term |-> <<12472, 12540, 12500, 12540, 12486, 12451, 12540>>, new_term |-> <<71, 80, 84>>],
    [old_term |-> <<12521, 12540, 12512>>, new_term |-> <<76, 108, 97, 109, 97>>],
    [old_term |-> <<12456, 12523, 12456, 12512>>, new_term |-> <<76, 76, 77>>] >>

\* One 'technical_terms' for each pair whose old term is in the original and
\* whose new term is in the corrected text, from pair n on.
RECURSIVE TechnicalTerms(_, _, _)
TechnicalTerms(original, corrected, n) ==
    IF n > Len(tech_replacements) THEN <<>>
    ELSE (IF /\ Contains(original, tech_replacements[n].old_term)
             /\ Contains(corrected, tech_replacements[n].new_term)
          THEN <<"technical_terms">> ELSE <<>>)
         \o TechnicalTerms(original, corrected, n + 1)

\* ['えー', 'あのー', 'なんか', 'その', 'ちょっと']
fillers == <<<<12360, 12540>>, <<12354, 12398, 12540>>, <<12394, 12435, 12363>>, <<12381, 12398>>, <<12385, 12423, 12387, 12392>>>>

\* sum(t.count(f) for f in fillers), from filler n on
RECURSIVE FillerCount(_, _)
FillerCount(t, n) ==
    IF n > Len(fillers) THEN 0 ELSE CountFrom(t, fillers[n], 1) + FillerCount(t, n + 1)

\* len(re.findall(r'[。、]', t))
PunctCount(t) == Cardinality({k \in 1..Len(t) : t[k] \in {12290, 12289}})

\* The tag appended when the test holds
TagIf(test, tag) == IF test THEN <<tag>> ELSE <<>>

\* detect_corrections_improved(original, corrected)
detect_corrections_improved(original, corrected) ==
    TagIf(RepeatedPhrase(original) /\ ~RepeatedPhrase(corrected), "repetition_removal")
    \o TechnicalTerms(original, corrected, 1)
    \o TagIf(FillerCount(corrected, 1) < FillerCount(original, 1), "filler_removal")
    \o TagIf(PunctCount(corrected) > PunctCount(original), "punctuation_improvement")
    \o TagIf(\/ Contains(original, <<12384, 12387, 12383, 12398, 12363, 12394>>) /\ Contains(corrected, <<12391, 12375, 12383>>)
             \/ Contains(original, <<12387, 12390, 12356, 12358>>) /\ Contains(corrected, <<12392, 12356, 12358>>),
             "naturalness_improvement")
    \o TagIf(\/ Contains(original, <<30003, 12375, 12377>>) /\ Contains(corrected, <<30003, 12375, 12414, 12377>>)
             \/ Contains(original, <<12372, 12374, 12356, 12377>>) /\ Contains(corrected, <<12372, 12374, 12356, 12414, 12377>>),
             "grammar_fixes")

\* len([s for s in re.split(r'[。！？]', t) if s.strip()]), for the parts from index k on
NextStop(t, k) == MinOf({j \in k..Len(t) : t[j] \in {12290, 65281, 65311}} \cup {Len(t) + 1})

RECURSIVE SentencesFrom(_, _)
SentencesFrom(t, k) ==
    IF k > Len(t) THEN 0
    ELSE (IF Strip(SubSeq(t, k, NextStop(t, k) - 1)) /= <<>> THEN 1 ELSE 0)
         + SentencesFrom(t, NextStop(t, k) + 1)

\* str(n) for a natural number
RECURSIVE Digits(_)
Digits(n) == IF n < 10 THEN <<48 + n>> ELSE Digits(n \div 10) \o <<48 + (n % 10)>>

\* The test without its last condition
DuplicateRemovedUnchecked(original, corrected) ==
    Contains(original, <<68, 97, 121, 50, 12395, 12394, 12427, 68, 97, 121, 50>>) /\ Contains(corrected, <<68, 97, 121, 50>>)

\* 'Day2になるDay2' in original and 'Day2' in corrected and
\* 'Day2になるDay2' not in corrected
DuplicateRemoved(original, corrected) ==
    /\ Contains(original, <<68, 97, 121, 50, 12395, 12394, 12427, 68, 97, 121, 50>>)
    /\ Contains(corrected, <<68, 97, 121, 50>>)
    /\ ~Contains(corrected, <<68, 97, 121, 50, 12395, 12394, 12427, 68, 97, 121, 50>>)

\* get_significant_changes(original, corrected): the entries
\* '「Day2になるDay2」→「Day2」重複除去', '「ベルト」→「BERT」専門用語修正' and
\* f'文の区切り改善（{orig_sentences}→{corr_sentences}文）'
get_significant_changes(original, corrected) ==
    (IF DuplicateRemoved(original, corrected)
     THEN <<<<12300, 68, 97, 121, 50, 12395, 12394, 12427, 68, 97, 121, 50, 12301, 8594, 12300, 68, 97, 121, 50, 12301, 37325, 35079, 38500, 21435>>>> ELSE <<>>)
    \o (IF Contains(original, <<12505, 12523, 12488>>) /\ Contains(corrected, <<66, 69, 82, 84>>)
        THEN <<<<12300, 12505, 12523, 12488, 12301, 8594, 12300, 66, 69, 82, 84, 12301, 23554, 38272, 29992, 35486, 20462, 27491>>>> ELSE <<>>)
    \o (IF SentencesFrom(corrected, 1) > SentencesFrom(original, 1)
        THEN <<<<25991, 12398, 21306, 20999, 12426, 25913, 21892, 65288>> \o Digits(SentencesFrom(original, 1)) \o <<8594>>
               \o Digits(SentencesFrom(corrected, 1)) \o <<25991, 65289>>>>
        ELSE <<>>)

\* text[:100] + ('...' if len(text) > 100 else '')
Preview(t) == IF Len(t) > 100 THEN SubSeq(t, 1, 100) \o <<46, 46, 46>> ELSE t

\* analyze_segment_detailed, given the stripped texts and the corrections detected;
\* readability_improvement and text_similarity are left out.
SegmentAnalysis(orig_seg, orig_text, corr_text, corrections, segment_id) ==
    [segment_id          |-> segment_id,
     timestamp           |-> orig_seg.timestamp,
     original_length     |-> Len(orig_text),
     corrected_length    |-> Len(corr_text),
     corrections         |-> corrections,
     quality_score       |-> calculate_realistic_quality_score(orig_text, corr_text, corrections),
     original_preview    |-> Preview(orig_text),
     corrected_preview   |-> Preview(corr_text),
     significant_changes |-> get_significant_changes(orig_text, corr_text)]

analyze_segment_detailed(orig_seg, corr_seg, segment_id) ==
    SegmentAnalysis(orig_seg, Strip(orig_seg.content), Strip(corr_seg.content),
                    detect_corrections_improved(Strip(orig_seg.content), Strip(corr_seg.content)),
                    segment_id)

\* The keys of analysis['correction_types']
CorrectionTypes == {"technical_terms", "repetition_removal", "filler_removal",
                    "punctuation_improvement", "naturalness_improvement", "grammar_fixes"}

\* Every score falls into the bucket 'good'.
BucketAlwaysGood(score) == "good"

\* The bucket of a score: excellent from 0.8, good from 0.6, fair from 0.4, else poor
Bucket(score) ==
    IF ~FLess(score, Double(80)) THEN "excellent"
    ELSE IF ~FLess(score, Double(60)) THEN "good"
    ELSE IF ~FLess(score, Double(40)) THEN "fair"
    ELSE "poor"

\* The analysis after a pair was analysed: its entry is appended, each known
\* type is counted once for each of its entries in the corrections, and the count
\* of the bucket of the score is raised.
AnalysedWith(ev, seg_analysis) ==
    [ev EXCEPT !.segment_analysis = Append(@, seg_analysis),
               !.correction_types =
                   [g \in CorrectionTypes |->
                       @[g] + Cardinality({m \in 1..Len(seg_analysis.corrections) :
                                              seg_analysis.corrections[m] = g})],
               !.quality_distribution[Bucket(seg_analysis.quality_score)] = @ + 1]

\* The body of the loop for the pair of index n (counted from 1).

\* Every original segment is compared with the first corrected segment.
PairedWithFirst(ev, n) ==
    AnalysedWith(ev, analyze_segment_detailed(ev.original_segments[n],
                                              ev.corrected_segments[1], n))

AnalysedPair(ev, n) ==
    IF /\ Strip(ev.original_segments[n].content) /= <<>>
       /\ Strip(ev.corrected_segments[n].content) /= <<>>
    THEN AnalysedWith(ev, analyze_segment_detailed(ev.original_segments[n],
                                                   ev.corrected_segments[n], n))
    ELSE ev
\* ------------------------------------------------------------------ inputs

\* Text before the first header: none, or '前置き\n'
Preambles == {<<>>, <<21069, 32622, 12365, 10>>}

\* The header of the n-th unit, '[0:00:0n - 0:00:0m]' with m = n + 4:
\* '[0:00:01 - 0:00:05]', '[0:00:02 - 0:00:06]', ...
Header(n) == <<91, 48, 58, 48, 48, 58, 48>> \o <<48 + n>> \o <<32, 45, 32, 48, 58, 48, 48, 58, 48>> \o <<48 + n + 4>> \o <<93>>

\* The texts after a header: blank; 'えー'; 'エルエム'; '申しすございす';
\* 'ベルト 申しす なんか っていう'; 'エポック ベルト 申しす っていう';
\* 'ラーム [0:09] エルエム ラーム', which holds a bracket that is no header and one
\* term twice
Contents == {<<32, 32>>, <<12360, 12540>>, <<12456, 12523, 12456, 12512>>, <<30003, 12375, 12377, 12372, 12374, 12356, 12377>>,
             <<12505, 12523, 12488, 32, 30003, 12375, 12377, 32, 12394, 12435, 12363, 32, 12387, 12390, 12356, 12358>>, <<12456, 12509, 12483, 12463, 32, 12505, 12523, 12488, 32, 30003, 12375, 12377, 32, 12387, 12390, 12356, 12358>>,
             <<12521, 12540, 12512, 32, 91, 48, 58, 48, 57, 93, 32, 12456, 12523, 12456, 12512, 32, 12521, 12540, 12512>>}

\* The transcripts of exactly n header units, without the preamble: each unit is
\* its header, a blank and its content, and a newline separates the units.
RECURSIVE UnitTexts(_)
UnitTexts(n) ==
    IF n = 0 THEN {<<>>}
    ELSE IF n = 1 THEN {Header(1) \o <<32>> \o c : c \in Contents}
    ELSE {s \o <<10>> \o Header(n) \o <<32>> \o c : s \in UnitTexts(n - 1), c \in Contents}

Transcripts == {p \o u : p \in Preambles, u \in UNION {UnitTexts(n) : n \in 0..MaxUnits}}

\* What the service may answer when asked to correct t: nothing, an empty text,
\* t itself (bare or padded with blanks), or another text.
Outputs(t) ==
    {NoText, SomeText(<<>>), SomeText(t), SomeText(<<32>> \o t \o <<10>>), SomeText(<<20462, 27491, 28168, 12415, 12391, 12377>>)}

\* What the service may do when asked to correct t: fail, or respond with an output
\* and a usage (inputTokens, outputTokens), which is (0, 0) when it reports none.
Replies(t) ==
    {[kind |-> "raise"]}
    \cup {[kind |-> "response", usage |-> <<3, 2>>, output |-> o] : o \in Outputs(t)}
    \cup {[kind |-> "response", usage |-> <<0, 0>>, output |-> SomeText(<<20462, 27491, 28168, 12415, 12391, 12377>>)]}

\* Fragments of the texts handed to correct_text and needs_llm_correction alone:
\* 'ベルト', 'さん', 'ジーピーティー', 'は', ' ', '申しす', 'だったのか', 'も', 'エポック',
\* 'バット', 'ー', 'スレッド1', ' 。  の' (a blank before a mark and two blanks in a
\* row), 'りがとうございす'
Frags == {<<12505, 12523, 12488>>, <<12373, 12435>>, <<12472, 12540, 12500, 12540, 12486, 12451, 12540>>, <<12399>>, <<32>>, <<30003, 12375, 12377>>,
          <<12384, 12387, 12383, 12398, 12363>>, <<12418>>, <<12456, 12509, 12483, 12463>>, <<12496, 12483, 12488>>, <<12540>>, <<12473, 12524, 12483, 12489, 49>>, <<32, 12290, 32, 32, 12398>>,
          <<12426, 12364, 12392, 12358, 12372, 12374, 12356, 12377>>}

\* The texts of at most n fragments.
RECURSIVE FragTexts(_)
FragTexts(n) ==
    IF n = 0 THEN {<<>>}
    ELSE FragTexts(n - 1) \cup {s \o f : s \in FragTexts(n - 1), f \in Frags}

Texts == FragTexts(MaxFrags)

\* The correction tags of the refined scorer, and one it does not know.
Tags == {"technical_terms", "repetition_removal", "grammar_fixes", "punctuation_improvement",
         "naturalness_improvement", "filler_removal", "other"}

\* The corrections lists of at most n tags.
RECURSIVE TagLists(_)
TagLists(n) ==
    IF n = 0 THEN {<<>>}
    ELSE LET S == TagLists(n - 1) IN S \cup {Append(s, g) : s \in S, g \in Tags}

\* Texts handed to the refined scorer: '', 'x', 'Day2になるDay2の講座', 'Day2の講座',
\* 'ありがとうございます'
AuditTexts == {<<>>, <<120>>, <<68, 97, 121, 50, 12395, 12394, 12427, 68, 97, 121, 50, 12398, 35611, 24231>>, <<68, 97, 121, 50, 12398, 35611, 24231>>, <<12354, 12426, 12364, 12392, 12358, 12372, 12374, 12356, 12414, 12377>>}

\* ------------------------------------------------------------ state machine

\* Values of the variables that hold nothing yet.
NoRule == [corrected |-> <<>>, corrections |-> <<>>, quality |-> 0]

NoUnit == [content |-> <<>>, rule |-> NoRule, flagged |-> FALSE, outcome |-> "none",
           llm_result |-> NoText]

NoAudit == [original |-> <<>>, corrected |-> <<>>, corrections |-> <<>>, score |-> -1]

NoReturn == [op |-> "none", rule |-> NoRule, flagged |-> FALSE]

NoStats == [raised |-> FALSE, segments |-> -1, average |-> -1]

NoBatch == [txt_files |-> <<>>, n |-> 0, all_results |-> <<>>, total_segments |-> 0,
            written |-> {}]

\* The analysis dictionary before the loop: no segment analysed, every count 0.
NoEvaluation ==
    [original_segments    |-> <<>>,
     corrected_segments   |-> <<>>,
     n                    |-> 0,
     error                |-> FALSE,
     segment_analysis     |-> <<>>,
     correction_types     |-> [g \in CorrectionTypes |-> 0],
     quality_distribution |-> [b \in {"excellent", "good", "fair", "poor"} |-> 0]]

\* "correction_settings" as create_config_file writes them: every stage enabled.
DefaultConfig ==
    [enable_tech_terms         |-> TRUE,
     enable_ending_fixes       |-> TRUE,
     enable_filler_removal     |-> TRUE,
     enable_naturalization     |-> TRUE,
     enable_punctuation        |-> TRUE,
     enable_repetition_removal |-> TRUE]

\* The locals of enhanced_correct_text with a gate that flags every text.
GateUnitAlways(content, rule) ==
    [content |-> content, rule |-> rule, flagged |-> TRUE,
     outcome |-> "none", llm_result |-> NoText]

\* The locals of enhanced_correct_text once the rule stage returned rule for the
\* content and needs_llm_correction looked at the rule-corrected text.
GateUnit(content, rule) ==
    [content |-> content, rule |-> rule, flagged |-> needs_llm_correction(rule.corrected),
     outcome |-> "none", llm_result |-> NoText]

\* After NovaCorrector() (which holds a LightweightCorrector): the client is set, or
\* its initialization failed or it was disabled (BatchProcessor, enable_llm=False).
Init ==
    /\ pc = "idle"
    /\ bedrock_client \in BOOLEAN
    /\ total_input_tokens = 0
    /\ total_output_tokens = 0
    /\ total_cost = 0
    /\ mode = "none"
    /\ text = <<>>
    /\ segments = <<>>
    /\ i = 0
    /\ results = <<>>
    /\ cur = NoUnit
    /\ calls = <<>>
    /\ audit = NoAudit
    /\ output = <<>>
    /\ ret = NoReturn
    /\ config = DefaultConfig
    /\ stats = NoStats
    /\ batch = NoBatch
    /\ evaluation = NoEvaluation
    /\ corrector = load_patterns

\* process_segments(t) / process_segments_enhanced(t) is entered: re.split, results = [].
Start ==
    /\ pc = "idle"
    /\ \E m \in {"rule", "nova"}, t \in Transcripts :
          /\ mode' = m
          /\ text' = t
          /\ segments' = Split(t)
    /\ i' = 1
    /\ results' = <<>>
    /\ pc' = "loop"
    /\ UNCHANGED <<bedrock_client, total_input_tokens, total_output_tokens, total_cost,
                   cur, calls, audit, output, ret,
                   config, stats, batch, evaluation, corrector>>

\* One iteration of the loop of process_segments.
RuleStep ==
    /\ pc = "loop"
    /\ mode = "rule"
    /\ i < Len(segments)
    /\ results' = RuleIteration(corrector, segments, i, results)
    /\ i' = i + 2
    /\ UNCHANGED <<pc, bedrock_client, total_input_tokens, total_output_tokens, total_cost,
                   mode, text, segments, cur, calls, audit, output, ret,
                   config, stats, batch, evaluation, corrector>>

\* One iteration of the loop of process_segments_enhanced, up to the gate: a unit
\* without content is passed over; otherwise enhanced_correct_text runs the rule
\* stage and needs_llm_correction decides whether the adapter is called.
EnhancedBegin ==
    /\ pc = "loop"
    /\ mode = "nova"
    /\ i < Len(segments)
    /\ IF HasContent(segments, i)
       THEN /\ cur' = GateUnit(Strip(Seg(segments, i + 1)),
                               correct_text(corrector, Strip(Seg(segments, i + 1))))
            /\ pc' = IF cur'.flagged THEN "call" ELSE "append"
            /\ i' = i
       ELSE /\ i' = i + 2
            /\ UNCHANGED <<pc, cur, corrector>>
    /\ UNCHANGED <<bedrock_client, total_input_tokens, total_output_tokens, total_cost,
                   mode, text, segments, results, calls, audit, output, ret,
                   config, stats, batch, evaluation, corrector>>

\* How a call ended: no client, an exception, a response without output, a text.
Outcome(client, reply) ==
    IF ~client THEN "unavailable"
    ELSE IF reply.kind = "raise" THEN "raise"
    ELSE IF reply.output.some THEN "text"
    ELSE "nooutput"

\* call_nova_micro in the current state, the service behaving as reply
Called(reply) ==
    call_nova_micro(bedrock_client, reply,
                    [input |-> total_input_tokens, output |-> total_output_tokens,
                     cost |-> total_cost])

\* call_nova_micro(create_correction_prompt(rule_corrected))
CallNova ==
    /\ pc = "call"
    /\ \E reply \in Replies(cur.rule.corrected) :
          /\ cur' = [cur EXCEPT !.llm_result = Called(reply).result,
                                !.outcome = Outcome(bedrock_client, reply)]
          /\ total_input_tokens' = Called(reply).acct.input
          /\ total_output_tokens' = Called(reply).acct.output
          /\ total_cost' = Called(reply).acct.cost
    /\ pc' = "append"
    /\ UNCHANGED <<bedrock_client, mode, text, segments, i, results, calls, audit, output, ret,
                   config, stats, batch, evaluation, corrector>>

\* The result record of a unit in process_segments_enhanced, r being what
\* enhanced_correct_text returned for it.
EnhancedResult(id, ts, content, r) ==
    [id          |-> id,
     start_time  |-> ts.start_time,
     end_time    |-> ts.end_time,
     original    |-> content,
     corrected   |-> r.corrected,
     corrections |-> r.corrections,
     quality     |-> r.quality,
     llm_used    |-> llm_used(r.corrections)]

\* enhanced_correct_text returns and the result is appended.
EnhancedEnd ==
    /\ pc = "append"
    /\ results' = Append(results,
                         EnhancedResult(Len(results) + 1, Timestamps(Seg(segments, i)),
                                        cur.content, enhanced_result(cur.rule, cur.llm_result)))
    /\ calls' = Append(calls, cur)
    /\ cur' = NoUnit
    /\ i' = i + 2
    /\ pc' = "loop"
    /\ UNCHANGED <<bedrock_client, total_input_tokens, total_output_tokens, total_cost,
                   mode, text, segments, audit, output, ret,
                   config, stats, batch, evaluation, corrector>>

\* The loop ends and the result list is returned.
Return ==
    /\ pc = "loop"
    /\ i >= Len(segments)
    /\ pc' = "done"
    /\ UNCHANGED <<bedrock_client, total_input_tokens, total_output_tokens, total_cost,
                   mode, text, segments, i, results, cur, calls, audit, output, ret,
                   config, stats, batch, evaluation, corrector>>

\* main writes the corrected transcript.
Save ==
    /\ pc = "done"
    /\ output' = WriteOutput(results)
    /\ pc' = "saved"
    /\ UNCHANGED <<bedrock_client, total_input_tokens, total_output_tokens, total_cost,
                   mode, text, segments, i, results, cur, calls, audit, ret,
                   config, stats, batch, evaluation, corrector>>

\* The statistics line of the single-file entry points: the number of segments
\* and the average quality.  The division raises when there is no segment;
\* final_system catches FileNotFoundError only, nova_system catches and reports it.
ReportStats ==
    /\ pc = "saved"
    /\ stats' = entry_stats(results)
    /\ pc' = IF stats'.raised /\ mode = "rule" THEN "crashed" ELSE "reported"
    /\ UNCHANGED <<bedrock_client, total_input_tokens, total_output_tokens, total_cost,
                   mode, text, segments, i, results, cur, calls, audit, output, ret,
                   config, batch, evaluation, corrector>>

\* calculate_realistic_quality_score(original, corrected, corrections) is called.
Score ==
    /\ pc = "idle"
    /\ \E o \in AuditTexts, c \in AuditTexts, l \in TagLists(MaxCorrections) :
          audit' = [original |-> o, corrected |-> c, corrections |-> l,
                    score |-> calculate_realistic_quality_score(o, c, l)]
    /\ pc' = "scored"
    /\ UNCHANGED <<bedrock_client, total_input_tokens, total_output_tokens, total_cost,
                   mode, text, segments, i, results, cur, calls, output, ret,
                   config, stats, batch, evaluation, corrector>>

Next ==
    \/ Start \/ RuleStep \/ EnhancedBegin \/ CallNova \/ EnhancedEnd \/ Return
    \/ Save \/ ReportStats \/ Score

Spec == Init /\ [][Next]_vars

\* ---------------------------------------------- the functions on their own

\* The flags of correction_settings
StageFlags == {"enable_tech_terms", "enable_ending_fixes", "enable_filler_removal",
               "enable_naturalization", "enable_punctuation", "enable_repetition_removal"}

\* The configuration files at hand: the one create_config_file writes, and the
\* ones a user gets by setting one flag of it to false.
Configs == {DefaultConfig} \cup {[DefaultConfig EXCEPT ![f] = FALSE] : f \in StageFlags}

\* No correction_config.json: os.path.exists(config_file) is false.
NoConfigFile == [exists |-> FALSE]

\* A corrector is constructed; a text is at hand, and a configuration file or none.
InitText ==
    /\ pc = "idle"
    /\ bedrock_client \in BOOLEAN
    /\ total_input_tokens = 0
    /\ total_output_tokens = 0
    /\ total_cost = 0
    /\ mode = "none"
    /\ text \in Texts
    /\ segments = <<>>
    /\ i = 0
    /\ results = <<>>
    /\ cur = NoUnit
    /\ calls = <<>>
    /\ audit = NoAudit
    /\ output = <<>>
    /\ ret = NoReturn
    /\ config \in Configs \cup {NoConfigFile}
    /\ stats = NoStats
    /\ batch = NoBatch
    /\ evaluation = NoEvaluation
    /\ corrector = load_patterns

\* LightweightCorrector.correct_text(text) is called.
CorrectText ==
    /\ pc = "idle"
    /\ ret' = [op |-> "correct_text", rule |-> correct_text(corrector, text), flagged |-> FALSE]
    /\ pc' = "returned"
    /\ UNCHANGED <<bedrock_client, total_input_tokens, total_output_tokens, total_cost,
                   mode, text, segments, i, results, cur, calls, audit, output,
                   config, stats, batch, evaluation, corrector>>

\* NovaCorrector.needs_llm_correction(text) is called.
NeedsLLM ==
    /\ pc = "idle"
    /\ ret' = [op |-> "needs_llm_correction", rule |-> NoRule,
               flagged |-> needs_llm_correction(text)]
    /\ pc' = "returned"
    /\ UNCHANGED <<bedrock_client, total_input_tokens, total_output_tokens, total_cost,
                   mode, text, segments, i, results, cur, calls, audit, output,
                   config, stats, batch, evaluation, corrector>>

\* config_system.create_config_file(): correction_config.json is written anew,
\* with every flag of correction_settings true, whatever it held before.
CreateConfigFile ==
    /\ config' = DefaultConfig
    /\ UNCHANGED <<pc, bedrock_client, total_input_tokens, total_output_tokens, total_cost,
                   mode, text, segments, i, results, cur, calls, audit, output, ret,
                   stats, batch, evaluation, corrector>>

\* config_system.load_config(config_file): config_file is correction_config.json
\* (own, the default argument) or another file, which exists or not.  When the
\* named file is missing, create_config_file writes correction_config.json,
\* whatever it held; otherwise nothing is written.  What is returned is the
\* content of the named file, or None when it still cannot be read.
LoadConfig ==
    /\ \E own \in BOOLEAN, exists \in BOOLEAN :
          config' = IF (IF own THEN config /= NoConfigFile ELSE exists)
                    THEN config
                    ELSE DefaultConfig
    /\ UNCHANGED <<pc, bedrock_client, total_input_tokens, total_output_tokens, total_cost,
                   mode, text, segments, i, results, cur, calls, audit, output, ret,
                   stats, batch, evaluation, corrector>>

NextText == CorrectText \/ NeedsLLM \/ CreateConfigFile \/ LoadConfig

SpecText == InitText /\ [][NextText]_vars

\* ------------------------------------------------------------ batch processing

\* The contents of the *.txt files of a batch run: 'えー' (no header, hence no
\* segment), and a transcript of two units, 'エポック ベルト 申しす っていう' (which
\* the gate flags) and '申しすございす'.
BatchTexts == {<<12360, 12540>>,
               Header(1) \o <<32, 12456, 12509, 12483, 12463, 32, 12505, 12523, 12488, 32, 30003, 12375, 12377, 32, 12387, 12390, 12356, 12358, 10>> \o Header(2) \o <<32, 30003, 12375, 12377, 12372, 12374, 12356, 12377>>}

\* A file of the input directory: whether it can be read, what it holds, and
\* whether its output file can be written.
Files ==
    {[readable |-> FALSE, content |-> <<>>, writable |-> TRUE]}
    \cup {[readable |-> TRUE, content |-> c, writable |-> w] : c \in BatchTexts, w \in BOOLEAN}

\* The lists glob may return: at most n files.
RECURSIVE FileLists(_)
FileLists(n) ==
    IF n = 0 THEN {<<>>}
    ELSE FileLists(n - 1) \cup {Append(s, f) : s \in {l \in FileLists(n - 1) : Len(l) = n - 1}, f \in Files}

\* The loop gives up on all the files that are left.
AfterFailureAbort(b) == [b EXCEPT !.n = Len(b.txt_files) + 1]

\* "except Exception": the error is printed and the loop goes on to the next file.
AfterFailure(b) == [b EXCEPT !.n = @ + 1]

\* The file was corrected and written: the statistics are updated.
AfterSuccess(b, res) ==
    [b EXCEPT !.n = @ + 1,
              !.all_results = @ \o res,
              !.total_segments = @ + Len(res),
              !.written = @ \cup {b.n}]

\* The statistics save_batch_stats writes: the number of segments and the
\* average quality, 0 when there is no segment.
batch_stats(all_results) ==
    [raised   |-> FALSE,
     segments |-> Len(all_results),
     average  |-> IF Len(all_results) > 0 THEN Average(all_results) ELSE 0]

\* After BatchProcessor(enable_llm): a NovaCorrector whose client is set, or
\* failed to initialize, or was disabled.
InitBatch ==
    /\ pc = "idle"
    /\ bedrock_client \in BOOLEAN
    /\ total_input_tokens = 0
    /\ total_output_tokens = 0
    /\ total_cost = 0
    /\ mode = "none"
    /\ text = <<>>
    /\ segments = <<>>
    /\ i = 0
    /\ results = <<>>
    /\ cur = NoUnit
    /\ calls = <<>>
    /\ audit = NoAudit
    /\ output = <<>>
    /\ ret = NoReturn
    /\ config = DefaultConfig
    /\ stats = NoStats
    /\ batch = NoBatch
    /\ evaluation = NoEvaluation
    /\ corrector = load_patterns

\* process_directory is entered: the *.txt files are listed; without any the
\* function returns at once.
BatchStart ==
    /\ pc = "idle"
    /\ \E l \in FileLists(MaxFiles) :
          /\ batch' = [NoBatch EXCEPT !.txt_files = l, !.n = 1]
          /\ pc' = IF l = <<>> THEN "nofiles" ELSE "file"
    /\ UNCHANGED <<bedrock_client, total_input_tokens, total_output_tokens, total_cost,
                   mode, text, segments, i, results, cur, calls, audit, output, ret,
                   config, stats, evaluation, corrector>>

\* The next file is opened and read, and process_segments_enhanced is entered;
\* a file that cannot be read is passed over.
BatchRead ==
    /\ pc = "file"
    /\ batch.n <= Len(batch.txt_files)
    /\ IF batch.txt_files[batch.n].readable
       THEN /\ mode' = "nova"
            /\ text' = batch.txt_files[batch.n].content
            /\ segments' = Split(batch.txt_files[batch.n].content)
            /\ i' = 1
            /\ results' = <<>>
            /\ calls' = <<>>
            /\ pc' = "loop"
            /\ UNCHANGED batch
       ELSE /\ batch' = AfterFailure(batch)
            /\ UNCHANGED <<pc, mode, text, segments, i, results, calls, corrector>>
    /\ UNCHANGED <<bedrock_client, total_input_tokens, total_output_tokens, total_cost,
                   cur, audit, output, ret, config, stats, evaluation, corrector>>

\* The corrected file is written and the statistics are updated; when the
\* output file cannot be written the file is passed over.
BatchWrite ==
    /\ pc = "done"
    /\ batch.n >= 1
    /\ IF batch.txt_files[batch.n].writable
       THEN /\ output' = WriteOutput(results)
            /\ batch' = AfterSuccess(batch, results)
       ELSE /\ batch' = AfterFailure(batch)
            /\ UNCHANGED output
    /\ pc' = "file"
    /\ UNCHANGED <<bedrock_client, total_input_tokens, total_output_tokens, total_cost,
                   mode, text, segments, i, results, cur, calls, audit, ret,
                   config, stats, evaluation, corrector>>

\* After the last file: show_batch_summary and save_batch_stats.
BatchEnd ==
    /\ pc = "file"
    /\ batch.n > Len(batch.txt_files)
    /\ stats' = batch_stats(batch.all_results)
    /\ pc' = "finished"
    /\ UNCHANGED <<bedrock_client, total_input_tokens, total_output_tokens, total_cost,
                   mode, text, segments, i, results, cur, calls, audit, output, ret,
                   config, batch, evaluation, corrector>>

NextBatch ==
    \/ BatchStart \/ BatchRead \/ EnhancedBegin \/ CallNova \/ EnhancedEnd \/ Return
    \/ BatchWrite \/ BatchEnd

SpecBatch == InitBatch /\ [][NextBatch]_vars

\* --------------------------------------------------------------- diff analysis

\* The texts of the blocks of the two files: 'Day2になるDay2の講座', 'Day2の講座',
\* 'ベルト 申しす えー', 'BERT 申します。'
EvalContents == {<<68, 97, 121, 50, 12395, 12394, 12427, 68, 97, 121, 50, 12398, 35611, 24231>>, <<68, 97, 121, 50, 12398, 35611, 24231>>, <<12505, 12523, 12488, 32, 30003, 12375, 12377, 32, 12360, 12540>>, <<66, 69, 82, 84, 32, 30003, 12375, 12414, 12377, 12290>>}

\* The n-th block of a file: its header on a line and the text on the next one,
\* as the entry points write it; or header and text on one line, as in a raw
\* transcript.
Blocks(n) ==
    {Header(n) \o <<10>> \o c \o <<10, 10>> : c \in EvalContents}
    \cup {Header(n) \o <<32, 68, 97, 121, 50, 12398, 35611, 24231, 10>>}

\* The files of at most n blocks.
RECURSIVE EvalFilesOf(_)
EvalFilesOf(n) == IF n = 0 THEN {<<>>} ELSE {f \o b : f \in EvalFilesOf(n - 1), b \in Blocks(n)}

EvalFiles == UNION {EvalFilesOf(n) : n \in 0..MaxBlocks}

\* Before improved_quality_analysis is called; it uses no corrector object.
InitEval ==
    /\ pc = "idle"
    /\ bedrock_client = FALSE
    /\ total_input_tokens = 0
    /\ total_output_tokens = 0
    /\ total_cost = 0
    /\ mode = "none"
    /\ text = <<>>
    /\ segments = <<>>
    /\ i = 0
    /\ results = <<>>
    /\ cur = NoUnit
    /\ calls = <<>>
    /\ audit = NoAudit
    /\ output = <<>>
    /\ ret = NoReturn
    /\ config = DefaultConfig
    /\ stats = NoStats
    /\ batch = NoBatch
    /\ evaluation = NoEvaluation
    /\ corrector = <<>>

\* The two files are read and their segments extracted; calculate_overall_metrics
\* divides by the length of the original, so that an empty original file ends the
\* analysis with {'error': ...}.  text holds the original file and output the
\* corrected one.
EvalStart ==
    /\ pc = "idle"
    /\ \E o \in EvalFiles, c \in EvalFiles :
          /\ text' = o
          /\ output' = c
          /\ IF Len(o) = 0
             THEN /\ evaluation' = [NoEvaluation EXCEPT !.error = TRUE]
                  /\ pc' = "error"
             ELSE /\ evaluation' = [NoEvaluation EXCEPT
                                       !.original_segments = extract_segments_improved(o),
                                       !.corrected_segments = extract_segments_improved(c),
                                       !.n = 1]
                  /\ pc' = "pairs"
    /\ UNCHANGED <<bedrock_client, total_input_tokens, total_output_tokens, total_cost,
                   mode, segments, i, results, cur, calls, audit, ret,
                   config, stats, batch, corrector>>

\* One iteration of the loop over zip(original_segments, corrected_segments).
EvalPair ==
    /\ pc = "pairs"
    /\ evaluation.n <= Min(Len(evaluation.original_segments), Len(evaluation.corrected_segments))
    /\ evaluation' = [AnalysedPair(evaluation, evaluation.n) EXCEPT !.n = @ + 1]
    /\ UNCHANGED <<pc, bedrock_client, total_input_tokens, total_output_tokens, total_cost,
                   mode, text, segments, i, results, cur, calls, audit, output, ret,
                   config, stats, batch, corrector>>

\* zip is exhausted: the analysis is returned.
EvalReturn ==
    /\ pc = "pairs"
    /\ evaluation.n > Min(Len(evaluation.original_segments), Len(evaluation.corrected_segments))
    /\ pc' = "analysed"
    /\ UNCHANGED <<bedrock_client, total_input_tokens, total_output_tokens, total_cost,
                   mode, text, segments, i, results, cur, calls, audit, output, ret,
                   config, stats, batch, evaluation, corrector>>

NextEval == EvalStart \/ EvalPair \/ EvalReturn

SpecEval == InitEval /\ [][NextEval]_vars

\* ------------------------------------------------------------ the web server

\* The class WebHandler is defined: its attribute corrector, shared by the handler
\* objects of all requests, is a LightweightCorrector; no request was handled yet.
InitWeb ==
    /\ pc = "idle"
    /\ bedrock_client = FALSE
    /\ total_input_tokens = 0
    /\ total_output_tokens = 0
    /\ total_cost = 0
    /\ mode = "none"
    /\ text = <<>>
    /\ segments = <<>>
    /\ i = 0
    /\ results = <<>>
    /\ cur = NoUnit
    /\ calls = <<>>
    /\ audit = NoAudit
    /\ output = <<>>
    /\ ret = NoReturn
    /\ config = DefaultConfig
    /\ stats = NoStats
    /\ batch = NoBatch
    /\ evaluation = NoEvaluation
    /\ corrector = load_patterns

\* The text field of a posted form: empty, or a transcript of one or two units,
\* with or without a preamble.
PostedTexts ==
    {<<>>} \cup {p \o u : p \in Preambles, u \in UnitTexts(1) \cup UnitTexts(2)}

\* WebHandler.do_POST, one request: to a path other than /correct it is answered
\* 404 and with an empty text field 400; otherwise self.corrector.process_segments
\* runs on the text with the tables the shared corrector holds now, and the page of
\* its results is sent with status 200.  Nothing assigns an attribute of the
\* corrector.
DoPost ==
    /\ \E path \in {"/correct", "/"}, input_text \in PostedTexts :
          IF path /= "/correct"
          THEN /\ ret' = [op |-> "do_POST", status |-> 404]
               /\ text' = <<>>
               /\ results' = <<>>
          ELSE IF input_text = <<>>
          THEN /\ ret' = [op |-> "do_POST", status |-> 400]
               /\ text' = <<>>
               /\ results' = <<>>
          ELSE /\ ret' = [op |-> "do_POST", status |-> 200]
               /\ text' = input_text
               /\ results' = process_segments(corrector, input_text)
    /\ pc' = "served"
    /\ UNCHANGED <<bedrock_client, total_input_tokens, total_output_tokens, total_cost,
                   mode, segments, i, cur, calls, audit, output,
                   config, stats, batch, evaluation, corrector>>

SpecWeb == InitWeb /\ [][DoPost]_vars

\* ------------------------------------------------------------- properties

\* The indices of a transcript at which a timestamp header begins.
HeaderStarts(t) == {k \in 1..Len(t) : HeaderEnd(t, k) > 0}

\* The trimmed text between the header at k and the next of the headers H, or
\* the end of the text.
UnitText(t, H, k) ==
    Strip(SubSeq(t, HeaderEnd(t, k), MinOf({j \in H : j > k} \cup {Len(t) + 1}) - 1))

\* Of the headers H, those followed by text that is not blank.
KeptOf(t, H) == {k \in H : UnitText(t, H, k) /= <<>>}

\* The headers of a transcript followed by text that is not blank.
KeptUnits(t) == KeptOf(t, HeaderStarts(t))

\* The n-th smallest element of S.
NthOf(S, n) == CHOOSE k \in S : Cardinality({j \in S : j < k}) = n - 1

\* The header a result's timestamps were read from.
HeaderOf(r) == <<91>> \o r.start_time \o <<32, 45, 32>> \o r.end_time \o <<93>>

\* Result r is the unit of the header at k in t, whose headers are H.
IsUnit(r, t, H, k) ==
    /\ HeaderOf(r) = SubSeq(t, k, HeaderEnd(t, k) - 1)
    /\ r.original = UnitText(t, H, k)

\* C1: the quality of every segment is in [0,1], for the simple scorer of
\* correct_text, for the boosted value of enhanced_correct_text and for
\* calculate_realistic_quality_score on any (original, corrected, corrections).
QualityInUnitInterval ==
    /\ \A n \in 1..Len(results) : results[n].quality \in 0..100
    /\ cur.rule.quality \in 0..100
    /\ pc = "scored" => ~FLess(audit.score, Double(0)) /\ ~FLess(Double(100), audit.score)

\* A run whose first segment has four rule corrections (0.8 + 0.3 before the cap)
\* and whose second segment was boosted from 0.9.
QualityCapsApplied ==
    /\ pc = "done"
    /\ mode = "nova"
    /\ Len(results) = 2
    /\ Len(results[1].corrections) = 4
    /\ results[1].quality = 100
    /\ calls[2].rule.quality = 90
    /\ calls[2].outcome = "text"
    /\ results[2].corrected /= calls[2].rule.corrected
    /\ results[2].quality = 100

\* C2: the list an entry point returns is exactly the sequence of header units
\* with non-empty trimmed content, in the order of their headers in the input, and
\* its k-th element has id k.
SegmentsInSourceOrder ==
    pc \in {"done", "saved"} =>
        LET H == HeaderStarts(text)
            K == KeptOf(text, H)
        IN  /\ Len(results) = Cardinality(K)
            /\ \A n \in 1..Len(results) :
                  /\ results[n].id = n
                  /\ IsUnit(results[n], text, H, NthOf(K, n))

\* A run over two header units of which the first is blank: the second unit is
\* the only result, with id 1.
SecondUnitIsFirstResult ==
    /\ pc = "done"
    /\ Cardinality(HeaderStarts(text)) = 2
    /\ Len(results) = 1
    /\ results[1].id = 1
    /\ results[1].start_time = <<48, 58, 48, 48, 58, 48, 50>>

\* C3: no segment is made for the text before the first header, nor for a header
\* followed only by blanks; every segment made has non-empty trimmed original text.
OnlyUnitsWithContent ==
    LET H == HeaderStarts(text)
        K == KeptOf(text, H)
    IN  /\ Len(results) <= Cardinality(K)
        /\ \A n \in 1..Len(results) :
              /\ results[n].original /= <<>>
              /\ Strip(results[n].original) = results[n].original
              /\ \E k \in K : IsUnit(results[n], text, H, k)

\* A run over a transcript that begins with text before the first header and has
\* a blank unit and a unit with content.
PreambleAndBlankUnitSkipped ==
    /\ pc = "done"
    /\ text /= <<>>
    /\ HeaderEnd(text, 1) = 0
    /\ Cardinality(HeaderStarts(text)) = 2
    /\ Cardinality(KeptUnits(text)) = 1
    /\ Len(results) = 1

\* The segments read again have the timestamps of the first run's and its
\* corrected texts as their original texts.
SameTuples(again, res) ==
    /\ Len(again) = Len(res)
    /\ \A n \in 1..Len(res) :
          /\ again[n].start_time = res[n].start_time
          /\ again[n].end_time = res[n].end_time
          /\ again[n].original = res[n].corrected

\* C4: writing the segments in the output format and segmenting that output again
\* yields as many segments, with the same (start_time, end_time, trimmed text).
RoundTrip ==
    pc = "saved" /\ mode = "rule" => SameTuples(process_segments(corrector, output), results)

\* '[0:00:01 - 0:00:05] 申しすございす'
ExampleInput == <<91, 48, 58, 48, 48, 58, 48, 49, 32, 45, 32, 48, 58, 48, 48, 58, 48, 53, 93, 32, 30003, 12375, 12377, 12372, 12374, 12356, 12377>>

\* The entries of a log that begin with a label.
Entries(log, label) == {n \in 1..Len(log) : MatchLit(log[n], 1, label)}

\* C5 as stated: the example yields one segment with the corrected text
\* '申します。ございます。', two ending-fix entries and one punctuation entry.
ExampleAsStated ==
    pc = "saved" /\ mode = "rule" /\ text = ExampleInput =>
        /\ Len(results) = 1
        /\ results[1].corrected = <<30003, 12375, 12414, 12377, 12290, 12372, 12374, 12356, 12414, 12377, 12290>>
        /\ output = <<91, 48, 58, 48, 48, 58, 48, 49, 32, 45, 32, 48, 58, 48, 48, 58, 48, 53, 93, 10, 30003, 12375, 12414, 12377, 12290, 12372, 12374, 12356, 12414, 12377, 12290, 10, 10>>
        /\ Cardinality(Entries(results[1].corrections, LabelEnding)) = 2
        /\ Cardinality(Entries(results[1].corrections, LabelPunct)) = 1

\* C5: the example yields one segment with the corrected text '申しすございます'
\* (only the ending at the end of the text is fixed), a log of exactly one entry,
\* the ending fix 'ございます', no punctuation entry, and quality 0.5.
ExampleAsComputed ==
    pc = "saved" /\ mode = "rule" /\ text = ExampleInput =>
        /\ results = << [id          |-> 1,
                         start_time  |-> <<48, 58, 48, 48, 58, 48, 49>>,
                         end_time    |-> <<48, 58, 48, 48, 58, 48, 53>>,
                         original    |-> <<30003, 12375, 12377, 12372, 12374, 12356, 12377>>,
                         corrected   |-> <<30003, 12375, 12377, 12372, 12374, 12356, 12414, 12377>>,
                         corrections |-> << LabelEnding \o <<12372, 12374, 12356, 12414, 12377>> >>,
                         quality     |-> 50] >>
        /\ output = <<91, 48, 58, 48, 48, 58, 48, 49, 32, 45, 32, 48, 58, 48, 48, 58, 48, 53, 93, 10, 30003, 12375, 12377, 12372, 12374, 12356, 12414, 12377, 10, 10>>

\* The example was processed by the rule pipeline and written.
ExampleWritten == pc = "saved" /\ mode = "rule" /\ text = ExampleInput

\* 'ベルト' occurs in t without 'ン' after it.
BareBelt(t) ==
    \E k \in 1..Len(t) : MatchLit(t, k, <<12505, 12523, 12488>>) /\ ~MatchLit(t, k + 3, <<12531>>)

\* C6: every 'ベルト' not followed by 'ン' is rewritten to 'ベルトン', whatever
\* surrounds it, with a technical-term entry logged, and every 'ジーピーティー' is
\* rewritten to 'GPT'.
TermsRewrittenAnywhere ==
    ret.op = "correct_text" =>
        /\ BareBelt(text) =>
              /\ ~BareBelt(ret.rule.corrected)
              /\ Entries(ret.rule.corrections, LabelTech \o <<12505, 12523, 12488, 12531>>) /= {}
        /\ Contains(text, <<12472, 12540, 12500, 12540, 12486, 12451, 12540>>) => ~Contains(ret.rule.corrected, <<12472, 12540, 12500, 12540, 12486, 12451, 12540>>)

\* C7: needs_llm_correction returns true exactly when one of its patterns matches
\* somewhere in the text, and it changes nothing of the corrector.
GateIffSomePatternMatches ==
    ret.op = "needs_llm_correction" =>
        /\ ret.flagged <=> \E n \in 1..Len(complex_patterns) : Search(complex_patterns[n], text)
        /\ total_input_tokens = 0 /\ total_output_tokens = 0 /\ total_cost = 0
        /\ results = <<>> /\ calls = <<>> /\ cur = NoUnit

\* A text flagged by a pattern other than the first of the list.
FlaggedByLaterPattern ==
    /\ ret.op = "needs_llm_correction"
    /\ ret.flagged
    /\ ~Search(complex_patterns[1], text)

\* The adapter gave nothing for the n-th result: no client, an exception, no
\* text in the response or an empty text.
AdapterFailed(n) ==
    /\ calls[n].flagged
    /\ \/ calls[n].outcome \in {"unavailable", "raise", "nooutput"}
       \/ calls[n].outcome = "text" /\ calls[n].llm_result.text = <<>>

\* C8: when the adapter is unavailable, raises or returns no or an empty text,
\* the segment keeps exactly the rule stage's text, log and quality, and the run
\* goes on to the end: every unit with content has its result.
FallbackOnAdapterFailure ==
    mode = "nova" =>
        /\ \A n \in 1..Len(results) :
              AdapterFailed(n) =>
                  /\ results[n].corrected = calls[n].rule.corrected
                  /\ results[n].corrections = calls[n].rule.corrections
                  /\ results[n].quality = calls[n].rule.quality
        /\ pc = "done" => Len(results) = Cardinality(KeptUnits(text))

\* A finished run in which the adapter raised for the first unit and had no text
\* for the second.
RunSurvivedFailures ==
    /\ pc = "done"
    /\ mode = "nova"
    /\ Len(results) = 2
    /\ AdapterFailed(1) /\ calls[1].outcome = "raise"
    /\ AdapterFailed(2) /\ calls[2].outcome = "nooutput"

\* The adapter returned, for the n-th result, a non-empty text that differs from
\* the rule-corrected text.
AdapterChanged(n) ==
    /\ calls[n].llm_result.some
    /\ calls[n].llm_result.text /= <<>>
    /\ calls[n].llm_result.text /= calls[n].rule.corrected

\* C9: llm_used is true exactly for the segments whose text the adapter changed;
\* without a client it is false for every segment, whatever the rules logged.
LLMUsedIffAdapterChanged ==
    mode = "nova" =>
        \A n \in 1..Len(results) :
            /\ results[n].llm_used <=> AdapterChanged(n)
            /\ ~bedrock_client => ~results[n].llm_used

\* C10: when the gate flags a segment and the adapter returns a non-empty text
\* different from the rule-corrected one, the segment has the adapter's text, the
\* rule log followed by one 'LLM文脈修正' entry and quality min(1.0, rule quality +
\* 0.3); when the adapter returns the rule-corrected text, the segment has the
\* rule stage's text, log and quality.
EscalationResult ==
    mode = "nova" =>
        \A n \in 1..Len(results) :
            /\ calls[n].flagged /\ AdapterChanged(n) =>
                  /\ results[n].corrected = calls[n].llm_result.text
                  /\ results[n].corrections = calls[n].rule.corrections \o <<LabelLLM>>
                  /\ results[n].quality =
                        (IF calls[n].rule.quality > 70 THEN 100 ELSE calls[n].rule.quality + 30)
            /\ calls[n].flagged /\ calls[n].llm_result = SomeText(calls[n].rule.corrected) =>
                  /\ results[n].corrected = calls[n].rule.corrected
                  /\ results[n].corrections = calls[n].rule.corrections
                  /\ results[n].quality = calls[n].rule.quality

\* A run in which the adapter changed the first segment (quality 0.9, boosted to
\* the cap) and echoed the rule-corrected text of the second (quality stays 0.9).
EscalatedAndEchoed ==
    /\ mode = "nova"
    /\ Len(results) = 2
    /\ calls[1].flagged /\ AdapterChanged(1)
    /\ calls[1].rule.quality = 90 /\ results[1].quality = 100
    /\ calls[2].flagged /\ calls[2].llm_result = SomeText(calls[2].rule.corrected)
    /\ calls[2].rule.quality = 90 /\ results[2].quality = 90

\* C13: for an input without segments, the statistics of the single-file entry
\* points are a count of 0 and an average of 0, and no division by zero is raised.
StatsWithoutSegments ==
    pc \in {"reported", "crashed"} /\ Len(results) = 0 =>
        /\ ~stats.raised
        /\ stats.segments = 0
        /\ stats.average = 0

\* The indices of the '[' of a transcript that begin no timestamp header.
MalformedBrackets(t) == {k \in 1..Len(t) : t[k] = 91 /\ HeaderEnd(t, k) = 0}

\* The index of the first character c of t from k on; past the end if none.
FirstFrom(t, k, c) == MinOf({j \in k..Len(t) : t[j] = c} \cup {Len(t) + 1})

\* The trimmed text after the bracket opened at k, up to the next '[' or the end.
TextAfterBracket(t, k) ==
    Strip(SubSeq(t, FirstFrom(t, k, 93) + 1, FirstFrom(t, k + 1, 91) - 1))

\* C15: the unit after a header-like bracket that does not parse into two
\* timestamps is emitted as a segment whose start_time and end_time are '00:00:00'.
SentinelForMalformedHeader ==
    pc = "done" =>
        \A k \in MalformedBrackets(text) :
            \E n \in 1..Len(results) :
                /\ results[n].start_time = Sentinel
                /\ results[n].end_time = Sentinel
                /\ results[n].original = TextAfterBracket(text, k)

\* C16 as stated: the text after the last header, which no header follows, is
\* not emitted as a segment.
LastBlockNotEmitted ==
    pc = "done" /\ HeaderStarts(text) /= {} =>
        LET H == HeaderStarts(text)
        IN  \A n \in 1..Len(results) : ~IsUnit(results[n], text, H, MaxOf(H))

\* C16: the text after the last header is emitted like any other unit: if it is
\* not blank it is the last segment returned.  The list re.split returns has an
\* odd length, so that the test i + 1 < len(segments) never fails in the loop.
LastBlockEmitted ==
    /\ pc /= "idle" /\ pc /= "scored" => Len(segments) % 2 = 1
    /\ pc = "done" /\ HeaderStarts(text) /= {} =>
          LET H == HeaderStarts(text)
          IN  UnitText(text, H, MaxOf(H)) /= <<>> =>
                  /\ Len(results) >= 1
                  /\ IsUnit(results[Len(results)], text, H, MaxOf(H))

\* A finished run over two units with content, the second ending the input.
LastOfTwoEmitted ==
    /\ pc = "done"
    /\ Cardinality(HeaderStarts(text)) = 2
    /\ Len(results) = 2
    /\ results[2].start_time = <<48, 58, 48, 48, 58, 48, 50>>
    /\ results[2].original = UnitText(text, HeaderStarts(text), MaxOf(HeaderStarts(text)))

\* The log entries of the stage a flag of correction_settings names.
StageEntries(log, flag) ==
    CASE flag = "enable_tech_terms" -> Entries(log, LabelTech)
      [] flag = "enable_ending_fixes" -> Entries(log, LabelEnding)
      [] flag = "enable_repetition_removal" -> Entries(log, LabelRepetition)
      [] flag = "enable_filler_removal" -> Entries(log, LabelFiller)
      [] flag = "enable_naturalization" -> Entries(log, LabelNatural)
      [] flag = "enable_punctuation" -> Entries(log, LabelPunct)

\* C17: a stage whose flag is false in the configuration logs no entry of its
\* category in correct_text (it rewrites nothing), and the outcome of the other
\* stages does not depend on the flag.
StagesFollowConfig ==
    ret.op = "correct_text" /\ config /= NoConfigFile =>
        \A f \in StageFlags :
            ~config[f] => StageEntries(ret.rule.corrections, f) = {}

\* C11: across the adapter calls and the transcripts one NovaCorrector
\* processes, total_input_tokens, total_output_tokens and total_cost never
\* decrease: no step lowers or resets them.
CountersNeverDecrease ==
    [][/\ total_input_tokens' >= total_input_tokens
       /\ total_output_tokens' >= total_output_tokens
       /\ total_cost' >= total_cost]_vars

\* The second file of a batch run is being corrected and the counters hold the
\* tokens of a call made for the first file and of one made for the second.
CountersSpanTwoFiles ==
    /\ batch.n = 2
    /\ Len(batch.all_results) >= 1
    /\ pc = "append"
    /\ total_input_tokens = 6
    /\ total_output_tokens = 4

\* C12: after any sequence of adapter calls total_cost is 35 per input token
\* plus 140 per output token counted so far, in units of 1e-9 and in exact
\* arithmetic.
CostMatchesTokens ==
    total_cost = 35 * total_input_tokens + 140 * total_output_tokens

\* A batch run over two transcripts that ended after two calls that reported
\* tokens.
CostOfTwoCalls ==
    /\ pc = "finished"
    /\ total_input_tokens = 6
    /\ total_output_tokens = 4
    /\ total_cost = 770
    /\ Len(batch.all_results) = 4

\* The files of a batch run that can be read and whose output can be written.
Completed(l) == {k \in 1..Len(l) : l[k].readable /\ l[k].writable}

\* The units with content of the completed files among the first n files of l, in
\* file order and in the order of their headers: the header and the trimmed text.
RECURSIVE CompletedUnits(_, _)
CompletedUnits(l, n) ==
    IF n = 0 THEN <<>>
    ELSE IF n \notin Completed(l) THEN CompletedUnits(l, n - 1)
    ELSE LET t == l[n].content
             H == HeaderStarts(t)
             K == KeptOf(t, H)
         IN  CompletedUnits(l, n - 1) \o
             [m \in 1..Cardinality(K) |->
                 [header   |-> SubSeq(t, NthOf(K, m), HeaderEnd(t, NthOf(K, m)) - 1),
                  original |-> UnitText(t, H, NthOf(K, m))]]

\* The header and the original text of each of the results res.
UnitsOf(res) == [m \in 1..Len(res) |-> [header |-> HeaderOf(res[m]), original |-> res[m].original]]

\* C14: in a batch run a file that cannot be read or written is skipped and
\* every other file is still processed: at the end every file was looked at, the
\* output files written are those of the files that completed, and the aggregate
\* results are exactly the segments of these files, in file order.
FailedFileSkippedOnly ==
    pc = "finished" =>
        /\ batch.n = Len(batch.txt_files) + 1
        /\ batch.written = Completed(batch.txt_files)
        /\ UnitsOf(batch.all_results) = CompletedUnits(batch.txt_files, Len(batch.txt_files))
        /\ batch.total_segments = Len(batch.all_results)
        /\ stats.segments = Len(batch.all_results)

\* A batch run whose first file could not be read and whose second file gave
\* its two segments.
SecondFileAfterFailure ==
    /\ pc = "finished"
    /\ Len(batch.txt_files) = 2
    /\ ~batch.txt_files[1].readable
    /\ batch.written = {2}
    /\ Len(batch.all_results) = 2

\* C18: the pairs analysed are positional: the k-th entry of segment_analysis
\* has segment_id k and compares the k-th segment of the original file with the
\* k-th segment of the corrected file; there are as many entries as the shorter
\* of the two segment lists has segments, so that no surplus segment is analysed.
PairsArePositional ==
    pc = "analysed" =>
        LET O == extract_segments_improved(text)
            C == extract_segments_improved(output)
            A == evaluation.segment_analysis
        IN  /\ Len(A) = Min(Len(O), Len(C))
            /\ \A k \in 1..Len(A) :
                  /\ A[k].segment_id = k
                  /\ A[k].timestamp = O[k].timestamp
                  /\ A[k].original_preview = Strip(O[k].content)
                  /\ A[k].corrected_preview = Strip(C[k].content)
                  /\ A[k].original_length = Len(Strip(O[k].content))
                  /\ A[k].corrected_length = Len(Strip(C[k].content))

\* An analysis of an original file of two segments and a corrected file of one:
\* one pair was analysed.
SurplusSegmentLeftOut ==
    /\ pc = "analysed"
    /\ Len(evaluation.original_segments) = 2
    /\ Len(evaluation.corrected_segments) = 1
    /\ Len(evaluation.segment_analysis) = 1
    /\ evaluation.segment_analysis[1].segment_id = 1

\* The sum of the counts f holds for the keys S.
RECURSIVE SumCounts(_, _)
SumCounts(f, S) ==
    IF S = {} THEN 0
    ELSE LET x == CHOOSE y \in S : TRUE IN f[x] + SumCounts(f, S \ {x})

\* The number of correction entries of the first n analyses of A.
RECURSIVE CorrectionEntries(_, _)
CorrectionEntries(A, n) ==
    IF n = 0 THEN 0 ELSE Len(A[n].corrections) + CorrectionEntries(A, n - 1)

\* The score s is at least h/100.
AtLeast(s, h) == ~FLess(s, Double(h))

\* C19: each analysed segment is counted in exactly one quality bucket, excellent
\* if its score is at least 0.8, else good if at least 0.6, else fair if at least
\* 0.4, else poor; the four counts add up to the number of analysed segments, and
\* the correction_types counts add up to the number of correction entries of all
\* analysed segments.
BucketsAndTypesAddUp ==
    pc \in {"pairs", "analysed"} =>
        LET A == evaluation.segment_analysis
            D == evaluation.quality_distribution
            S(k) == A[k].quality_score
        IN  /\ D["excellent"] = Cardinality({k \in 1..Len(A) : AtLeast(S(k), 80)})
            /\ D["good"] = Cardinality({k \in 1..Len(A) : ~AtLeast(S(k), 80) /\ AtLeast(S(k), 60)})
            /\ D["fair"] = Cardinality({k \in 1..Len(A) : ~AtLeast(S(k), 60) /\ AtLeast(S(k), 40)})
            /\ D["poor"] = Cardinality({k \in 1..Len(A) : ~AtLeast(S(k), 40)})
            /\ SumCounts(D, DOMAIN D) = Len(A)
            /\ SumCounts(evaluation.correction_types, CorrectionTypes)
                   = CorrectionEntries(A, Len(A))

\* An analysis of two pairs, one excellent and one fair, with at least three
\* correction entries.
ExcellentAndFairCounted ==
    /\ pc = "analysed"
    /\ Len(evaluation.segment_analysis) = 2
    /\ evaluation.quality_distribution["excellent"] = 1
    /\ evaluation.quality_distribution["fair"] = 1
    /\ CorrectionEntries(evaluation.segment_analysis, 2) >= 3

\* C20: for every analysed pair whose original text contains 'Day2になるDay2'
\* and whose corrected text contains 'Day2' but not 'Day2になるDay2' the
\* significant changes hold the entry of the duplicate removal, and they do not
\* hold it when the corrected text still contains 'Day2になるDay2'.
DuplicateRemovalRecorded ==
    \A k \in 1..Len(evaluation.segment_analysis) :
        LET o == Strip(evaluation.original_segments[k].content)
            c == Strip(evaluation.corrected_segments[k].content)
            changes == evaluation.segment_analysis[k].significant_changes
            recorded == \E m \in 1..Len(changes) : changes[m] = <<12300, 68, 97, 121, 50, 12395, 12394, 12427, 68, 97, 121, 50, 12301, 8594, 12300, 68, 97, 121, 50, 12301, 37325, 35079, 38500, 21435>>
        IN  /\ /\ Contains(o, <<68, 97, 121, 50, 12395, 12394, 12427, 68, 97, 121, 50>>)
               /\ Contains(c, <<68, 97, 121, 50>>)
               /\ ~Contains(c, <<68, 97, 121, 50, 12395, 12394, 12427, 68, 97, 121, 50>>)
               => recorded
            /\ Contains(c, <<68, 97, 121, 50, 12395, 12394, 12427, 68, 97, 121, 50>>) => ~recorded

\* An analysis of two pairs whose originals hold the duplicate: the first
\* corrected text lost it and the entry is recorded, the second still holds it.
DuplicateRemovedAndKept ==
    /\ pc = "analysed"
    /\ Len(evaluation.segment_analysis) = 2
    /\ evaluation.segment_analysis[1].significant_changes
           = <<<<12300, 68, 97, 121, 50, 12395, 12394, 12427, 68, 97, 121, 50, 12301, 8594, 12300, 68, 97, 121, 50, 12301, 37325, 35079, 38500, 21435>>>>
    /\ Contains(evaluation.original_segments[2].content, <<68, 97, 121, 50, 12395, 12394, 12427, 68, 97, 121, 50>>)
    /\ Contains(evaluation.corrected_segments[2].content, <<68, 97, 121, 50, 12395, 12394, 12427, 68, 97, 121, 50>>)
    /\ evaluation.segment_analysis[2].significant_changes = <<>>

\* The category detect_corrections_improved has for the log entries of a stage.
CategoryOf(flag) ==
    CASE flag = "enable_tech_terms" -> "technical_terms"
      [] flag = "enable_ending_fixes" -> "grammar_fixes"
      [] flag = "enable_repetition_removal" -> "repetition_removal"
      [] flag = "enable_filler_removal" -> "filler_removal"
      [] flag = "enable_naturalization" -> "naturalness_improvement"
      [] flag = "enable_punctuation" -> "punctuation_improvement"

\* C21: whenever correct_text logs a correction of a stage, detect_corrections_improved
\* on the text and its corrected text reports the category of that stage.
DetectionFollowsLog ==
    ret.op = "correct_text" =>
        LET found == detect_corrections_improved(text, ret.rule.corrected)
        IN  \A f \in StageFlags :
                StageEntries(ret.rule.corrections, f) /= {} =>
                    \E m \in 1..Len(found) : found[m] = CategoryOf(f)

\* A text without its whitespace.
RECURSIVE Unspaced(_)
Unspaced(t) ==
    IF t = <<>> THEN <<>>
    ELSE (IF IsSpace(t[1]) THEN <<>> ELSE <<t[1]>>) \o Unspaced(SubSeq(t, 2, Len(t)))

\* C22: extract_segments_improved yields the units process_segments yields: as
\* many, with the same headers in the same order and the same content up to
\* whitespace.
SameSegmentsAsSegmenter ==
    pc = "done" =>
        LET S == extract_segments_improved(text)
        IN  /\ Len(S) = Len(results)
            /\ \A n \in 1..Len(S) :
                  n <= Len(results) =>
                      /\ S[n].timestamp = HeaderOf(results[n])
                      /\ Unspaced(S[n].content) = Unspaced(results[n].original)

\* The stage a log entry belongs to, 1 to 6 in the order of correct_text, 7 for
\* the entry of the LLM step and 0 for any other text.
StageOf(entry) ==
    IF MatchLit(entry, 1, LabelTech) THEN 1
    ELSE IF MatchLit(entry, 1, LabelEnding) THEN 2
    ELSE IF entry = LabelRepetition THEN 3
    ELSE IF entry = LabelFiller THEN 4
    ELSE IF entry = LabelNatural THEN 5
    ELSE IF entry = LabelPunct THEN 6
    ELSE IF entry = LabelLLM THEN 7
    ELSE 0

\* The rule tables in stage order, with the label of each and whether its
\* entries carry the replacement.
StageTables ==
    << [rules |-> tech_terms, label |-> LabelTech, withRepl |-> TRUE],
       [rules |-> ending_fixes, label |-> LabelEnding, withRepl |-> TRUE],
       [rules |-> repetition_patterns, label |-> LabelRepetition, withRepl |-> FALSE],
       [rules |-> filler_patterns, label |-> LabelFiller, withRepl |-> FALSE],
       [rules |-> naturalness_rules, label |-> LabelNatural, withRepl |-> FALSE],
       [rules |-> punctuation_rules, label |-> LabelPunct, withRepl |-> FALSE] >>

\* The number of rules of all tables.
RECURSIVE RulesUpTo(_)
RulesUpTo(s) == IF s = 0 THEN 0 ELSE RulesUpTo(s - 1) + Len(StageTables[s].rules)

\* A log in stage order, with at most one entry for each rule that can log it and
\* at most one entry of the LLM step, at the end.
OrderedLog(log) ==
    /\ \A n \in 1..Len(log) : StageOf(log[n]) \in 1..7
    /\ \A n \in 1..(Len(log) - 1) :
          /\ StageOf(log[n]) <= StageOf(log[n + 1])
          /\ StageOf(log[n]) /= 7
    /\ \A s \in 1..6 : \A r \in 1..Len(StageTables[s].rules) :
          LET T == StageTables[s]
              e == Entry(T.rules[r], T.label, T.withRepl)
          IN  Cardinality({n \in 1..Len(log) : log[n] = e})
                  <= Cardinality({q \in 1..Len(T.rules) : Entry(T.rules[q], T.label, T.withRepl) = e})
    /\ Len(log) <= RulesUpTo(6) + 1

\* C23: the correction log of every segment is in stage order (technical terms,
\* endings, repetitions, fillers, naturalization, punctuation, then the entry of
\* the LLM step if any), a rule logs one entry however often it matched, and
\* the log is no longer than the number of rules plus one.
LogOrderedByStage ==
    pc = "done" => \A n \in 1..Len(results) : OrderedLog(results[n].corrections)

\* The number of places of t where lit stands.
Occurrences(t, lit) == Cardinality({k \in 1..Len(t) : MatchLit(t, k, lit)})

\* Witness of C23: a finished run with a log of entries of three stages and the
\* LLM entry last, and a segment with the same term twice and one entry for it.
LogOfSeveralStages ==
    /\ pc = "done"
    /\ \E n \in 1..Len(results) :
          LET log == results[n].corrections
          IN  /\ Len(log) >= 4
              /\ StageOf(log[1]) < StageOf(log[2])
              /\ StageOf(log[2]) < StageOf(log[3])
              /\ log[Len(log)] = LabelLLM
    /\ \E n \in 1..Len(results) :
          /\ Occurrences(results[n].original, tech_terms[4].pat) = 2
          /\ Cardinality(Entries(results[n].corrections, LabelTech \o tech_terms[4].repl)) = 1

\* The stages with at least one entry in a log.
CategoriesOf(log) == {StageOf(log[n]) : n \in 1..Len(log)}

\* C24: the quality correct_text gives a segment is 0.3 plus 0.2 for each distinct
\* category of its log, at most 1.0 (in hundredths): two entries of one category
\* count once.
QualityPerDistinctCategory ==
    pc = "done" /\ mode = "rule" =>
        \A n \in 1..Len(results) :
            results[n].quality
                = Min(100, 30 + 20 * Cardinality(CategoriesOf(results[n].corrections)))

\* 'ありがとうございます' and what is left of it without its first character
PoliteClosing == <<12354, 12426, 12364, 12392, 12358, 12372, 12374, 12356, 12414, 12377>>

\* The original holds the closing phrase and the corrected text only its rest, or
\* the original holds an important word the corrected text lacks.
LostSomething(original, corrected) ==
    \/ /\ Contains(original, PoliteClosing)
       /\ Contains(corrected, Tail(PoliteClosing))
       /\ ~Contains(corrected, PoliteClosing)
    \/ \E n \in 1..Len(important_words) :
          Contains(original, important_words[n]) /\ ~Contains(corrected, important_words[n])

\* C25: detect_deterioration fires only if the closing phrase of the original lost
\* its first character in the corrected text or an important word of the original
\* is absent from it; it does not fire on a text and itself.
DeteriorationOnlyOnLoss ==
    pc = "scored" =>
        /\ detect_deterioration(audit.original, audit.corrected)
               => LostSomething(audit.original, audit.corrected)
        /\ audit.original = audit.corrected
               => ~detect_deterioration(audit.original, audit.corrected)

\* The corrected text, the log and the quality of two results are the same.
SameOutcome(a, b) ==
    /\ a.corrected = b.corrected
    /\ a.corrections = b.corrections
    /\ a.quality = b.quality

NoOutputLeavesTotals ==
    [][pc = "call" /\ cur'.outcome \in {"nooutput", "unavailable"} =>
          /\ cur'.llm_result = NoText
          /\ total_input_tokens' = total_input_tokens
          /\ total_output_tokens' = total_output_tokens
          /\ total_cost' = total_cost]_vars

\* The marks 。、！？
Marks == {12290, 12289, 65281, 65311}

\* A text without whitespace at its ends, without two whitespace characters in
\* a row and without whitespace before a mark.
Normalized(t) ==
    /\ t /= <<>> => ~IsSpace(t[1]) /\ ~IsSpace(t[Len(t)])
    /\ \A k \in 1..(Len(t) - 1) :
          IsSpace(t[k]) => ~IsSpace(t[k + 1]) /\ t[k + 1] \notin Marks

\* C28: the text correct_text returns has no whitespace at its ends, no run of two
\* or more whitespace characters and no whitespace before 。、！？, and its log
\* holds entries of the six rule stages only: the cleanup logs nothing.
CorrectedIsNormalized ==
    ret.op = "correct_text" =>
        /\ Normalized(ret.rule.corrected)
        /\ \A n \in 1..Len(ret.rule.corrections) : StageOf(ret.rule.corrections[n]) \in 1..6

\* Witness of C28: a text with a blank at each end, a blank before a mark and two
\* blanks in a row inside was corrected; one blank is left and nothing is logged.
BlanksCleanedUp ==
    /\ ret.op = "correct_text"
    /\ text = <<32, 12290, 32, 32, 12398, 32>>
    /\ ret.rule.corrected = <<12290, 32, 12398>>
    /\ ret.rule.corrections = <<>>

\* C29: when the ending stage of correct_text logs a completion ('申します',
\* 'ございます', '思います' or 'ありがとうございます'), the text returned holds the completed
\* phrase: no later stage takes characters of it away.
EndingRepairSurvives ==
    ret.op = "correct_text" =>
        \A r \in 1..Len(ending_fixes) :
            Entries(ret.rule.corrections, LabelEnding \o ending_fixes[r].repl) /= {}
                => Contains(ret.rule.corrected, ending_fixes[r].repl)

\* A result of process_segments_enhanced with a value in every field.
Populated(r, n) ==
    /\ r.id = n
    /\ r.start_time /= <<>> /\ r.end_time /= <<>>
    /\ r.original /= <<>>
    /\ r.corrected \in Seq(Nat)
    /\ r.corrections \in Seq(Seq(Nat))
    /\ r.quality \in 0..100
    /\ r.llm_used \in BOOLEAN

\* The units of process_segments_enhanced handled so far: one record of the gate
\* and the adapter for each result, the adapter called if and only if the gate
\* flagged the rule-corrected text of that unit; no unit is in hand between two
\* iterations.
HandledInOrder ==
    /\ Len(calls) = Len(results)
    /\ pc = "loop" => cur = NoUnit
    /\ \A n \in 1..Len(results) :
          /\ Populated(results[n], n)
          /\ calls[n].content = results[n].original
          /\ (calls[n].outcome /= "none") = calls[n].flagged
          /\ pc = "done" =>
                /\ calls[n].rule = correct_text(corrector, calls[n].content)
                /\ calls[n].flagged = needs_llm_correction(calls[n].rule.corrected)

\* C30: process_segments_enhanced handles one segment at a time in source order:
\* the adapter is called at most once for a segment, after its rule correction and
\* only if the gate flagged the rule-corrected text; the result is appended
\* before the rule correction of the next segment begins; every result has all
\* fields.
OneAtATime ==
    /\ [](mode = "nova" => HandledInOrder)
    /\ [][mode = "nova" =>
          /\ pc = "call" =>
                /\ cur.flagged /\ cur.outcome = "none"
                /\ cur'.outcome /= "none"
                /\ pc' = "append" /\ results' = results
          /\ pc = "append" =>
                /\ Len(results') = Len(results) + 1
                /\ results'[Len(results')].original = cur.content
                /\ pc' = "loop"
          /\ pc = "loop" /\ pc' \in {"call", "append"} =>
                /\ cur'.content = Strip(Seg(segments, i + 1))
                /\ results' = results]_vars

\* Witness of C30: a finished run of two segments, the adapter called for the first
\* and not for the second.
FlaggedThenUnflagged ==
    /\ pc = "done"
    /\ mode = "nova"
    /\ Len(results) = 2
    /\ calls[1].flagged /\ calls[1].outcome = "text"
    /\ ~calls[2].flagged /\ calls[2].outcome = "none"
====
